---- MODULE Spec2Model ----
(***************************************************************************)
(* Model of the authentication core of hayl-energy-ai: the in-process     *)
(* fixed-window rate limiter, the JWT token service, the input sanitizer   *)
(* and the route handlers (signup, login, verify-email, me) with the page  *)
(* middleware, and the auth event logger.  Strings are sequences of        *)
(* one-character strings wherever a function of the program looks inside   *)
(* them.  The logger's buffers are followed in SpecLogger, which draws the *)
(* calls the login route makes; the other specifications start with no     *)
(* flush timer and leave the buffers alone.                                *)
(***************************************************************************)
EXTENDS Integers, Sequences, FiniteSets, TLC

VARIABLES
  now,      \* Date.now(), in milliseconds
  store,    \* rate-limit.ts: the module-level MemoryStore, key -> entry
  rl,       \* in-flight check() calls: position, limiter, key, result
  gwin,     \* the reference fixed window of each key
  env,      \* process.env: JWT_SECRET and JWT_REFRESH_SECRET
  minted,   \* the tokens signed so far, each with the function that signed it
  nextId,   \* the next value crypto.randomUUID() returns
  jres,     \* the most recent verification: the token, the time, both results
  users,    \* the User Store: the rows of auth_users, in order of creation
  nextTok,  \* the next verification token crypto.randomUUID() returns
  reqs,     \* the route handlers in flight: position, request, what they read
  resp,     \* the most recent response sent
  hist,     \* what the clients have seen: signups accepted, requests counted
  logBuffer,     \* AuthLogger.logBuffer: the entries kept, oldest first
  alertBuffer,   \* AuthLogger.alertBuffer: the alerts kept, oldest first
  flushInterval, \* AuthLogger.flushInterval: whether the constructor set the timer
  logged,        \* every entry logAuthEvent was called with, oldest first
  san,           \* a string on its way through sanitizeString, once and again
  mw             \* a limiter of createRateLimit and the request in its middleware

rlVars == <<store, rl, gwin, mw>>
jwtVars == <<env, minted, nextId, jres>>
authVars == <<users, nextTok, reqs, resp, hist>>
logVars == <<logBuffer, alertBuffer, flushInterval, logged>>
vars == <<now, store, rl, gwin, env, minted, nextId, jres, users, nextTok, reqs, resp, hist,
          logBuffer, alertBuffer, flushInterval, logged, san, mw>>

None == "none"

\* The null a verify* call returns instead of a payload.
NoPayload == [userId |-> None, email |-> <<>>, type |-> None]

\* a string that is no JWT
GarbageToken ==
  [malformed |-> TRUE, userId |-> None, email |-> <<>>, type |-> None, sessionId |-> None,
   iat |-> 0, iss |-> None, aud |-> None, exp |-> 0, jti |-> 0, sig |-> None]

NoVerification == [by |-> None, at |-> 0, exp |-> 0, userId |-> None,
                   asAccess |-> NoPayload, asRefresh |-> NoPayload,
                   tok |-> GarbageToken, afterLogout |-> FALSE]

Min(a, b) == IF a <= b THEN a ELSE b
Max(a, b) == IF a >= b THEN a ELSE b

(***************************************************************************)
(* Bounds of the model.                                                    *)
(***************************************************************************)
MaxCount == 6        \* no new call on a key whose stored count reached this
MaxOther == 1        \* the same for the loopback client, a second key beside the first
MaxRLMinutes == 60   \* the rate-limiter clock stops here

MinuteMs == 60 * 1000

(***************************************************************************)
(* rate-limit.ts: the predefined limiters and their options.               *)
(***************************************************************************)
Limiters == {"authRateLimit", "signupRateLimit"}

AuthMaxRequests == 5
SignupMaxRequests == 3
ApiMaxRequests == 100
PasswordResetMaxRequests == 3

windowMs(lim) ==
  CASE lim = "authRateLimit" -> 15 * 60 * 1000
    [] lim = "signupRateLimit" -> 60 * 60 * 1000
    [] lim = "apiRateLimit" -> 15 * 60 * 1000
    [] lim = "passwordResetRateLimit" -> 60 * 60 * 1000

maxRequests(lim) ==
  CASE lim = "authRateLimit" -> AuthMaxRequests
    [] lim = "signupRateLimit" -> SignupMaxRequests
    [] lim = "apiRateLimit" -> ApiMaxRequests
    [] lim = "passwordResetRateLimit" -> PasswordResetMaxRequests

(***************************************************************************)
(* The requests' client headers.  x-forwarded-for is a comma separated     *)
(* list, modelled as a sequence of addresses (empty: no such header).      *)
(***************************************************************************)
ClientHeaders ==
  { [forwarded |-> <<"10.0.0.1", "10.9.9.9">>, realIp |-> None, clientIp |-> None],
    [forwarded |-> <<>>, realIp |-> "127.0.0.1", clientIp |-> None],
    [forwarded |-> <<"::1">>, realIp |-> "10.0.0.1", clientIp |-> None],
    [forwarded |-> <<>>, realIp |-> None, clientIp |-> "10.0.0.1"] }


\* forwarded?.split(',')[0]?.trim() || realIp || clientIp || 'unknown'
HeaderIp(h) ==
  IF Len(h.forwarded) > 0 THEN h.forwarded[1]
  ELSE IF h.realIp # None THEN h.realIp
  ELSE IF h.clientIp # None THEN h.clientIp
  ELSE "unknown"

\* `rate_limit:${ip}` with the two loopback addresses folded into 'localhost'
defaultKeyGenerator(h) ==
  LET ip == HeaderIp(h)
  IN <<"rate_limit:", IF ip = "::1" \/ ip = "127.0.0.1" THEN "localhost" ELSE ip>>

\* Every predefined limiter is created without a keyGenerator option.
keyGenerator(lim, h) == defaultKeyGenerator(h)

Keys == { keyGenerator(lim, h) : lim \in Limiters, h \in ClientHeaders }

CountCap(key) == IF key = <<"rate_limit:", "localhost">> THEN MaxOther ELSE MaxCount

(***************************************************************************)
(* rate-limit.ts: MemoryStore.                                             *)
(***************************************************************************)
NoEntry == [count |-> 0, resetTime |-> 0]

cleanup(st, t) ==
  [k \in DOMAIN st |-> IF st[k] # NoEntry /\ st[k].resetTime <= t THEN NoEntry ELSE st[k]]

\* A variant that hands out an incremented copy and leaves the stored entry as it was.
incrementCopy(st, key, wMs, t) ==
  cleanup(IF st[key] = NoEntry \/ st[key].resetTime <= t
          THEN [st EXCEPT ![key] = [count |-> 1, resetTime |-> t + wMs]]
          ELSE st, t)

\* A variant with a sliding window: every call moves the entry's reset time.
incrementSliding(st, key, wMs, t) ==
  cleanup(IF st[key] = NoEntry \/ st[key].resetTime <= t
          THEN [st EXCEPT ![key] = [count |-> 1, resetTime |-> t + wMs]]
          ELSE [st EXCEPT ![key] = [count |-> @.count + 1, resetTime |-> t + wMs]], t)

\* The store after increment(key, windowMs) at time t; the call returns its entry for key.
increment(st, key, wMs, t) ==
  cleanup(IF st[key] = NoEntry \/ st[key].resetTime <= t
          THEN [st EXCEPT ![key] = [count |-> 1, resetTime |-> t + wMs]]
          ELSE [st EXCEPT ![key].count = @ + 1], t)

\* A variant with the comparison off by one.
allowedStrict(count, lim) == count < maxRequests(lim)

allowed(count, lim) == count <= maxRequests(lim)

remaining(count, lim) == Max(0, maxRequests(lim) - count)

\* What check() of limiter lim returns for key at time t, given the store before the call.
checkResult(st, lim, key, t) ==
  LET e == increment(st, key, windowMs(lim), t)[key]
  IN [allowed |-> allowed(e.count, lim),
      remaining |-> remaining(e.count, lim),
      resetTime |-> e.resetTime,
      count |-> e.count]

(***************************************************************************)
(* The reference fixed window of a key: opened by the first call at or     *)
(* after the previous window's reset time, it lasts the windowMs of the    *)
(* call that opened it and remembers how many calls it saw, which counts   *)
(* they observed, how many of them were allowed and whether one of them    *)
(* ran while another call for the key was waiting at its await.  users:    *)
(* the limiters that ever called check() with the key.  deniedBefore: a    *)
(* call was denied in the window before this one.                          *)
(***************************************************************************)
NoWindow == [reset |-> 0, n |-> 0, seen |-> {}, nAllowed |-> 0, raced |-> FALSE, users |-> {},
             deniedBefore |-> FALSE]

WindowAfterCall(w, lim, t, res, race) ==
  LET fresh == w.n = 0 \/ t >= w.reset
  IN [reset |-> IF fresh THEN t + windowMs(lim) ELSE w.reset,
      n |-> IF fresh THEN 1 ELSE w.n + 1,
      seen |-> (IF fresh THEN {} ELSE w.seen) \cup {res.count},
      nAllowed |-> (IF fresh THEN 0 ELSE w.nAllowed) + (IF res.allowed THEN 1 ELSE 0),
      raced |-> (~fresh /\ w.raced) \/ race,
      users |-> w.users \cup {lim},
      deniedBefore |-> IF fresh THEN w.n > w.nAllowed ELSE w.deniedBefore]

\* Two callbacks in flight at a time.
Procs == {1, 2}

NoKey == <<>>

IdleCall == [pc |-> "idle", lim |-> None, key |-> NoKey]

(***************************************************************************)
(* Requests and responses of the route handlers.  An absent JSON field,    *)
(* an absent query parameter and the empty string are the empty sequence   *)
(* (all are falsy); an optional part of a response is a set of at most     *)
(* one element.                                                            *)
(***************************************************************************)
NoBody == [malformed |-> FALSE, email |-> <<>>, password |-> <<>>, token |-> <<>>]

IdleReq == [pc |-> "idle", route |-> None, body |-> NoBody, user |-> {}, work |-> {}]

NoResponse == [route |-> None, status |-> 0, error |-> None, code |-> None, message |-> None,
               token |-> {}, cookies |-> {}, user |-> {}, location |-> {},
               path |-> <<>>, asked |-> <<>>, work |-> {}, presented |-> {}, headers |-> {}]

NoHistory == [accepted |-> {}, signups |-> 0, verifiedWith |-> {}]

\* No limiter with options of its own was created, no request is in a middleware.
NoMiddleware ==
  [pc |-> "idle",
   options |-> [windowMs |-> 0, maxRequests |-> 0,
                skipSuccessfulRequests |-> FALSE, skipFailedRequests |-> FALSE],
   key |-> NoKey, before |-> 0, allowed |-> FALSE, remaining |-> 0, resetTime |-> 0,
   outcome |-> None, status |-> 0]

\* No string is with the sanitizer.
NoSanitizing == [stage |-> "none", profile |-> None, input |-> <<>>, output |-> <<>>, again |-> <<>>]

AuthIdle ==
  /\ users = <<>>
  /\ nextTok = 1
  /\ reqs = [p \in Procs |-> IdleReq]
  /\ resp = NoResponse
  /\ hist = NoHistory
  /\ logBuffer = <<>>
  /\ alertBuffer = <<>>
  /\ logged = <<>>
  /\ san = NoSanitizing

(***************************************************************************)
(* check(): the key generator is awaited, so other callbacks may run       *)
(* before the call goes on with store.increment.                           *)
(***************************************************************************)
CheckStart(p, lim, h) ==
  /\ rl[p].pc = "idle"
  /\ store[keyGenerator(lim, h)].count < CountCap(keyGenerator(lim, h))
  /\ rl' = [rl EXCEPT ![p] = [pc |-> "keygen", lim |-> lim, key |-> keyGenerator(lim, h)]]
  /\ UNCHANGED <<now, store, gwin, mw, jwtVars, authVars, logVars, san>>

\* The value check() of call p returns when it resumes in the current state.
Returned(p) == checkResult(store, rl[p].lim, rl[p].key, now)

CheckResume(p) ==
  /\ rl[p].pc = "keygen"
  /\ LET lim == rl[p].lim
         key == rl[p].key
         race == \E q \in Procs \ {p} : rl[q].pc = "keygen" /\ rl[q].key = key
     IN /\ store' = increment(store, key, windowMs(lim), now)
        /\ gwin' = [gwin EXCEPT ![key] = WindowAfterCall(@, lim, now, Returned(p), race)]
        /\ rl' = [rl EXCEPT ![p] = IdleCall]
  /\ UNCHANGED <<now, mw, jwtVars, authVars, logVars, san>>

RLTick ==
  /\ \E d \in {15, 60} :
        /\ now + d * MinuteMs <= MaxRLMinutes * MinuteMs
        /\ now' = now + d * MinuteMs
  /\ UNCHANGED <<rlVars, jwtVars, authVars, logVars, san>>

RLInit ==
  /\ now = 0
  /\ store = [k \in Keys |-> NoEntry]
  /\ rl = [p \in Procs |-> IdleCall]
  /\ gwin = [k \in Keys |-> NoWindow]
  /\ mw = NoMiddleware
  /\ env = [JWT_SECRET |-> "secret-a", JWT_REFRESH_SECRET |-> None]
  /\ minted = {}
  /\ nextId = 1
  /\ jres = NoVerification
  /\ AuthIdle
  /\ flushInterval = FALSE

RLNext ==
  \/ \E p \in Procs, lim \in Limiters, h \in ClientHeaders : CheckStart(p, lim, h)
  \/ \E p \in Procs : CheckResume(p)
  \/ RLTick

SpecRL == RLInit /\ [][RLNext]_vars

\* Call p resumes from its await in this step.
Resumes(p) == rl[p].pc = "keygen" /\ rl'[p].pc = "idle"

\* C1: a limiter that is the only one calling check() with a key allows exactly the
\* first maxRequests calls of each window of that key and denies every further call
\* before the window's reset time; each call observes its own place in the window as
\* the count and the window's reset time; the first call at or after the reset time
\* opens a new window (count 1, reset time = now + windowMs) and is allowed.
C1_WindowCeiling ==
  [][\A p \in Procs :
       (Resumes(p) /\ gwin'[rl[p].key].users = {rl[p].lim}) =>
          LET k == rl[p].key
              lim == rl[p].lim
              ret == Returned(p)
          IN /\ ret.allowed = (gwin'[k].n <= maxRequests(lim))
             /\ ret.count = gwin'[k].n
             /\ ret.resetTime = gwin'[k].reset
             /\ ret.remaining = Max(0, maxRequests(lim) - gwin'[k].n)
             /\ (gwin[k].n = 0 \/ now >= gwin[k].reset) =>
                   /\ ret.count = 1
                   /\ ret.allowed
                   /\ ret.resetTime = now + windowMs(lim)
             /\ (gwin[k].n > 0 /\ now < gwin[k].reset) =>
                   /\ ret.count = gwin[k].n + 1
                   /\ ret.resetTime = gwin[k].reset]_vars

\* C1 witness: a second window of authRateLimit's key in which the sixth call was made:
\* five calls were allowed and one denied, after an earlier window had expired.
C1_Witness ==
  \E k \in Keys :
     /\ gwin[k].users = {"authRateLimit"}
     /\ gwin[k].n = AuthMaxRequests + 1
     /\ gwin[k].nAllowed = AuthMaxRequests
     /\ gwin[k].reset > windowMs("authRateLimit")
     /\ store[k].count = AuthMaxRequests + 1

\* C2: a check() of one predefined limiter leaves what check() of every other
\* predefined limiter would return for any client unchanged.
C2_ScopesIndependent ==
  [][\A p \in Procs :
       Resumes(p) =>
          \A other \in Limiters \ {rl[p].lim}, h \in ClientHeaders :
             checkResult(store', other, keyGenerator(other, h), now)
               = checkResult(store, other, keyGenerator(other, h), now)]_vars

\* C3: in every window of a key used by one limiter, whatever the interleaving of the
\* calls at their await, the stored count is the number of calls made, the calls
\* observed the distinct counts 1..K and exactly min(K, maxRequests) were allowed.
C3_NoLostIncrement ==
  \A k \in Keys :
    \A lim \in Limiters :
      (gwin[k].users = {lim} /\ gwin[k].n > 0) =>
         /\ gwin[k].seen = 1..gwin[k].n
         /\ gwin[k].nAllowed = Min(gwin[k].n, maxRequests(lim))
         /\ now < gwin[k].reset =>
               /\ store[k].count = gwin[k].n
               /\ store[k].resetTime = gwin[k].reset

\* C3 witness: a window still open in which more calls than maxRequests were made, one
\* of them run while another call for the same key was waiting at its await.
C3_Witness ==
  \E k \in Keys :
     /\ gwin[k].users = {"signupRateLimit"}
     /\ gwin[k].raced
     /\ gwin[k].n > SignupMaxRequests
     /\ now < gwin[k].reset
     /\ store[k].count = gwin[k].n

\* C27: the window is fixed.  A check() made while the key's entry has not reached its
\* reset time leaves the entry's resetTime as it was (whatever the count, so also while
\* the client is blocked) and returns that resetTime; no entry that has not reached its
\* reset time gets another resetTime or disappears; the first check() at or after the
\* reset time is allowed, with count 1 and a reset time one windowMs later.
C27_FixedWindow ==
  [][/\ \A k \in Keys :
           (store[k] # NoEntry /\ now < store[k].resetTime)
              => store'[k] # NoEntry /\ store'[k].resetTime = store[k].resetTime
     /\ \A p \in Procs :
           Resumes(p) =>
              LET k == rl[p].key
                  ret == Returned(p)
              IN IF store[k] # NoEntry /\ now < store[k].resetTime
                 THEN /\ ret.resetTime = store[k].resetTime
                      /\ ret.count = store[k].count + 1
                      /\ store[k].count >= maxRequests(rl[p].lim) => ~ret.allowed
                 ELSE /\ ret.allowed
                      /\ ret.count = 1
                      /\ ret.resetTime = now + windowMs(rl[p].lim)
                      /\ store'[k] = [count |-> 1, resetTime |-> now + windowMs(rl[p].lim)]]_vars

\* A window of signupRateLimit's key, opened at time 0 and still open after the clock
\* has moved, with two calls above maxRequests: the reset time is the one it opened with.
C27_BlockedLater ==
  \E k \in Keys :
     /\ gwin[k].users = {"signupRateLimit"}
     /\ store[k].count >= SignupMaxRequests + 2
     /\ store[k].resetTime = windowMs("signupRateLimit")
     /\ now > 0
     /\ now < store[k].resetTime

\* C27 witness: the first check() at or after the reset time of a window in which a call
\* was denied has opened the next window and was allowed.
C27_Witness ==
  \E k \in Keys :
     /\ gwin[k].deniedBefore
     /\ gwin[k].n = 1
     /\ gwin[k].nAllowed = 1
     /\ store[k].count = 1
     /\ store[k].resetTime = now + windowMs("authRateLimit")
     /\ now > 0

(***************************************************************************)
(* createRateLimit(options).middleware(request, handler) of a limiter      *)
(* created with skip options of its own and the default key generator.     *)
(* One request at a time is in the middleware; it waits at the await of    *)
(* check() and at the await of the handler.  before: the count the key     *)
(* had when the request came to store.increment, 0 without a live entry.   *)
(***************************************************************************)
MiddlewareOptions ==
  [windowMs : {15 * MinuteMs}, maxRequests : {3},
   skipSuccessfulRequests : BOOLEAN, skipFailedRequests : BOOLEAN]

\* The handler returns a response that is ok, one that is not, or throws.
HandlerOutcomes == {"ok", "notOk", "throws"}

MiddlewareStart(h) ==
  /\ mw.pc = "idle"
  /\ store[defaultKeyGenerator(h)].count < CountCap(defaultKeyGenerator(h))
  /\ mw' = [mw EXCEPT !.pc = "keygen", !.key = defaultKeyGenerator(h),
                       !.outcome = None, !.status = 0]
  /\ UNCHANGED <<now, store, rl, gwin, jwtVars, authVars, logVars, san>>

\* check() goes on with store.increment; a request that is not allowed gets the 429.
MiddlewareCheck ==
  /\ mw.pc = "keygen"
  /\ store' = increment(store, mw.key, mw.options.windowMs, now)
  /\ LET entry == store'[mw.key]
         isAllowed == entry.count <= mw.options.maxRequests
     IN mw' = [mw EXCEPT !.pc = IF isAllowed THEN "handler" ELSE "idle",
                         !.before = IF store[mw.key] = NoEntry \/ store[mw.key].resetTime <= now
                                    THEN 0 ELSE store[mw.key].count,
                         !.allowed = isAllowed,
                         !.remaining = Max(0, mw.options.maxRequests - entry.count),
                         !.resetTime = entry.resetTime,
                         !.status = IF isAllowed THEN 0 ELSE 429]
  /\ UNCHANGED <<now, rl, gwin, jwtVars, authVars, logVars, san>>

\* The handler has run.  Its response gets the three headers and is returned, its
\* exception is thrown again; the two blocks for the skip options hold a comment only.
MiddlewareHandler(outcome) ==
  /\ mw.pc = "handler"
  /\ mw' = [mw EXCEPT !.pc = "idle", !.outcome = outcome,
                       !.status = CASE outcome = "ok" -> 200
                                    [] outcome = "notOk" -> 401
                                    [] outcome = "throws" -> 0]
  /\ UNCHANGED <<now, store, rl, gwin, jwtVars, authVars, logVars, san>>

MiddlewareInit ==
  /\ now = 0
  /\ store = [k \in Keys |-> NoEntry]
  /\ rl = [p \in Procs |-> IdleCall]
  /\ gwin = [k \in Keys |-> NoWindow]
  /\ \E options \in MiddlewareOptions : mw = [NoMiddleware EXCEPT !.options = options]
  /\ env = [JWT_SECRET |-> "secret-a", JWT_REFRESH_SECRET |-> None]
  /\ minted = {}
  /\ nextId = 1
  /\ jres = NoVerification
  /\ AuthIdle
  /\ flushInterval = FALSE

MiddlewareNext ==
  \/ \E h \in ClientHeaders : MiddlewareStart(h)
  \/ MiddlewareCheck
  \/ \E outcome \in HandlerOutcomes : MiddlewareHandler(outcome)
  \/ RLTick

SpecMiddleware == MiddlewareInit /\ [][MiddlewareNext]_vars

\* C30: the skip options take effect.  With skipSuccessfulRequests a request whose
\* handler response is ok leaves the key's count as it was before the request, and with
\* skipFailedRequests so does a request whose handler throws.
C30_SkippedRequestsNotCounted ==
  [][\A outcome \in HandlerOutcomes :
        MiddlewareHandler(outcome) =>
           /\ (mw.options.skipSuccessfulRequests /\ outcome = "ok")
                 => store'[mw.key].count = mw.before
           /\ (mw.options.skipFailedRequests /\ outcome = "throws")
                 => store'[mw.key].count = mw.before]_vars

(***************************************************************************)
(* jwt.ts: JWTService.  A signed token is its claims and the secret that   *)
(* signed it; malformed marks a string that is no JWT at all.  Times in a  *)
(* token are seconds, Date.now() is milliseconds.                          *)
(***************************************************************************)
MaxMinted == 2         \* tokens signed in one run of the token service
MaxJWTMinutes == 30    \* the token-service clock moves this far into a week, and one week on

WeekMs == 7 * 24 * 60 * 60 * 1000

AccessTokenExpiresSec == 15 * 60
RefreshTokenExpiresSec == 7 * 24 * 60 * 60
ISSUER == "hayl-energy-ai"
AUDIENCE == "hayl-energy-ai-users"

Envs == { [JWT_SECRET |-> "secret-a", JWT_REFRESH_SECRET |-> None],
          [JWT_SECRET |-> "secret-a", JWT_REFRESH_SECRET |-> "secret-r"] }

accessTokenSecret == env.JWT_SECRET
\* process.env.JWT_REFRESH_SECRET || process.env.JWT_SECRET
refreshTokenSecret == IF env.JWT_REFRESH_SECRET # None THEN env.JWT_REFRESH_SECRET
                      ELSE env.JWT_SECRET

\* Math.floor(date.getTime() / 1000)
epoch(t) == t \div 1000

SignJWT(claims, iss, aud, expiresSec, jti, secret, t) ==
  [malformed |-> FALSE,
   userId |-> claims.userId, email |-> claims.email, type |-> claims.type,
   sessionId |-> claims.sessionId,
   iat |-> epoch(t), iss |-> iss, aud |-> aud, exp |-> epoch(t) + expiresSec,
   jti |-> jti, sig |-> secret]

signAccessToken(payload, jti, t) ==
  SignJWT([userId |-> payload.userId, email |-> payload.email, sessionId |-> payload.sessionId,
           type |-> "access"],
          ISSUER, AUDIENCE, AccessTokenExpiresSec, jti, accessTokenSecret, t)

signRefreshToken(payload, jti, t) ==
  SignJWT([userId |-> payload.userId, email |-> payload.email, sessionId |-> payload.sessionId,
           type |-> "refresh"],
          ISSUER, AUDIENCE, RefreshTokenExpiresSec, jti, refreshTokenSecret, t)

\* jose's jwtVerify: the signature, then the issuer and the audience when the caller
\* asks for them, then exp against the clock.  TRUE when it resolves, FALSE when it throws.
jwtVerify(token, secret, checkIss, checkAud, t) ==
  /\ ~token.malformed
  /\ token.sig = secret
  /\ checkIss => token.iss = ISSUER
  /\ checkAud => token.aud = AUDIENCE
  /\ token.exp > epoch(t)

\* The payload a verify* call returns, or NoPayload for its null; it never throws.
PayloadOf(token) == [userId |-> token.userId, email |-> token.email, type |-> token.type]

\* A variant with a list of the sessions that were logged out.
verifyAccessTokenRevoked(token, t) ==
  IF jwtVerify(token, accessTokenSecret, TRUE, TRUE, t) /\ resp.route # "logout"
  THEN IF token.type # "access" THEN NoPayload ELSE PayloadOf(token)
  ELSE NoPayload

\* A variant without the check of the type claim.
verifyAccessTokenAnyType(token, t) ==
  IF jwtVerify(token, accessTokenSecret, TRUE, TRUE, t) THEN PayloadOf(token) ELSE NoPayload

verifyAccessToken(token, t) ==
  IF jwtVerify(token, accessTokenSecret, TRUE, TRUE, t)
  THEN IF token.type # "access" THEN NoPayload ELSE PayloadOf(token)
  ELSE NoPayload

\* A variant without the catch block: what jwtVerify throws goes on to the caller.
verifyRefreshTokenUncaught(token, t) ==
  IF jwtVerify(token, refreshTokenSecret, TRUE, TRUE, t)
  THEN IF token.type # "refresh" THEN NoPayload ELSE PayloadOf(token)
  ELSE [NoPayload EXCEPT !.type = "thrown"]

verifyRefreshToken(token, t) ==
  IF jwtVerify(token, refreshTokenSecret, TRUE, TRUE, t)
  THEN IF token.type # "refresh" THEN NoPayload ELSE PayloadOf(token)
  ELSE NoPayload

JPayloads == { [userId |-> "user-1", email |-> <<"a", "@", "b", ".", "c">>, sessionId |-> None],
               [userId |-> "user-2", email |-> <<"d", "@", "e", ".", "f">>, sessionId |-> None] }

JSignAccess(payload) ==
  /\ Cardinality(minted) < MaxMinted
  /\ minted' = minted \cup {[tok |-> signAccessToken(payload, nextId, now), by |-> "signAccessToken"]}
  /\ nextId' = nextId + 1
  /\ UNCHANGED <<now, rlVars, env, jres, authVars, logVars, san>>

JSignRefresh(payload) ==
  /\ Cardinality(minted) < MaxMinted
  /\ minted' = minted \cup {[tok |-> signRefreshToken(payload, nextId, now), by |-> "signRefreshToken"]}
  /\ nextId' = nextId + 1
  /\ UNCHANGED <<now, rlVars, env, jres, authVars, logVars, san>>

\* Both verifications applied to a token signed earlier.
JVerify(m) ==
  /\ jres' = [by |-> m.by, at |-> now, exp |-> m.tok.exp, userId |-> m.tok.userId,
              asAccess |-> verifyAccessToken(m.tok, now),
              asRefresh |-> verifyRefreshToken(m.tok, now),
              tok |-> m.tok, afterLogout |-> resp.route = "logout"]
  /\ UNCHANGED <<now, rlVars, env, minted, nextId, authVars, logVars, san>>

JTick ==
  /\ \/ \E d \in {10, 15} :
           /\ (now % WeekMs) + d * MinuteMs <= MaxJWTMinutes * MinuteMs
           /\ now' = now + d * MinuteMs
     \/ /\ now < WeekMs
        /\ now' = now + WeekMs
  /\ UNCHANGED <<rlVars, jwtVars, authVars, logVars, san>>

JInit ==
  /\ now = 0
  /\ store = [k \in Keys |-> NoEntry]
  /\ rl = [p \in Procs |-> IdleCall]
  /\ gwin = [k \in Keys |-> NoWindow]
  /\ mw = NoMiddleware
  /\ env \in Envs
  /\ minted = {}
  /\ nextId = 1
  /\ jres = NoVerification
  /\ AuthIdle
  /\ flushInterval = FALSE

JNext ==
  \/ \E payload \in JPayloads : JSignAccess(payload)
  \/ \E payload \in JPayloads : JSignRefresh(payload)
  \/ \E m \in minted : JVerify(m)
  \/ JTick

SpecJWT == JInit /\ [][JNext]_vars

\* C6: in both secret configurations, a token of signAccessToken that has not expired is
\* accepted by verifyAccessToken with its userId, email and type 'access' and rejected
\* by verifyRefreshToken; a token of signRefreshToken that has not expired is accepted
\* by verifyRefreshToken and rejected by verifyAccessToken.
C6_TokenTypesSeparated ==
  /\ (jres.by = "signAccessToken" /\ epoch(jres.at) < jres.exp) =>
        /\ jres.asAccess # NoPayload
        /\ jres.asAccess.type = "access"
        /\ jres.asAccess.userId = jres.userId
        /\ \E m \in minted : m.by = jres.by /\ PayloadOf(m.tok) = jres.asAccess
        /\ jres.asRefresh = NoPayload
  /\ (jres.by = "signRefreshToken" /\ epoch(jres.at) < jres.exp) =>
        /\ jres.asRefresh # NoPayload
        /\ jres.asRefresh.type = "refresh"
        /\ jres.asRefresh.userId = jres.userId
        /\ \E m \in minted : m.by = jres.by /\ PayloadOf(m.tok) = jres.asRefresh
        /\ jres.asAccess = NoPayload

\* C6 witness: with the refresh secret falling back to the access secret, a refresh
\* token that has not expired was verified both ways.
C6_Witness ==
  /\ env.JWT_REFRESH_SECRET = None
  /\ jres.by = "signRefreshToken"
  /\ epoch(jres.at) < jres.exp
  /\ jres.at > 0
  /\ jres.asRefresh # NoPayload

(***************************************************************************)
(* Strings whose characters the program inspects are sequences of          *)
(* one-character strings.  "^@" and "^?" stand for the control characters  *)
(* NUL and DEL, "^g" for the grave accent.                                 *)
(***************************************************************************)
LowerLetters == <<"a", "b", "c", "d", "e", "f", "g", "h", "i", "j", "k", "l", "m",
                  "n", "o", "p", "q", "r", "s", "t", "u", "v", "w", "x", "y", "z">>
UpperLetters == <<"A", "B", "C", "D", "E", "F", "G", "H", "I", "J", "K", "L", "M",
                  "N", "O", "P", "Q", "R", "S", "T", "U", "V", "W", "X", "Y", "Z">>
Digits == {"0", "1", "2", "3", "4", "5", "6", "7", "8", "9"}
Range(f) == { f[i] : i \in DOMAIN f }

LowerSet == Range(LowerLetters)
UpperSet == Range(UpperLetters)
WordChars == LowerSet \cup UpperSet \cup Digits \cup {"_"}

IsLower(c) == c \in LowerSet
IsUpper(c) == c \in UpperSet
IsDigit(c) == c \in Digits
\* \w of a regular expression
IsWordChar(c) == c \in WordChars
\* \s of a regular expression, and what trim() removes
IsSpace(c) == c \in {" ", "\t", "\n", "\r", "\f"}
\* [\x00-\x08\x0B\x0C\x0E-\x1F\x7F]
IsControl(c) == c \in {"^@", "^?"}

\* the lower-case letter of each upper-case letter
LowerOf == [c \in UpperSet |-> LowerLetters[CHOOSE i \in DOMAIN UpperLetters : UpperLetters[i] = c]]

toLowerChar(c) == IF IsUpper(c) THEN LowerOf[c] ELSE c

toLowerCase(s) == [i \in DOMAIN s |-> toLowerChar(s[i])]

RECURSIVE trimStart(_)
trimStart(s) == IF s # <<>> /\ IsSpace(Head(s)) THEN trimStart(Tail(s)) ELSE s

RECURSIVE trimEnd(_)
trimEnd(s) == IF s # <<>> /\ IsSpace(s[Len(s)]) THEN trimEnd(SubSeq(s, 1, Len(s) - 1)) ELSE s

trim(s) == trimEnd(trimStart(s))

Contains(s, c) == \E i \in DOMAIN s : s[i] = c

\* The pieces lo..hi of a sequence of strings, joined.  The range is halved at each
\* step, so strings of some hundred characters are within reach.
RECURSIVE JoinRange(_, _, _)
JoinRange(pieces, lo, hi) ==
  IF lo > hi THEN <<>>
  ELSE IF lo = hi THEN pieces[lo]
  ELSE LET mid == (lo + hi) \div 2
       IN JoinRange(pieces, lo, mid) \o JoinRange(pieces, mid + 1, hi)

Join(pieces) == JoinRange(pieces, 1, Len(pieces))

\* s without the characters at the positions in gone
Without(s, gone) ==
  IF s = <<>> THEN s ELSE Join([i \in DOMAIN s |-> IF i \in gone THEN <<>> ELSE <<s[i]>>])

\* s.replace(/c/g, rep) for one character c
ReplaceChar(s, c, rep) ==
  IF s = <<>> THEN s ELSE Join([i \in DOMAIN s |-> IF s[i] = c THEN rep ELSE <<s[i]>>])

\* Whether the literal pat occurs in s at position i, letters compared without case when ci.
MatchAt(s, i, pat, ci) ==
  /\ i >= 1
  /\ i + Len(pat) - 1 <= Len(s)
  /\ \A j \in DOMAIN pat :
        IF ci THEN toLowerChar(s[i + j - 1]) = toLowerChar(pat[j]) ELSE s[i + j - 1] = pat[j]

\* The first of the positions up to i from which pat occurs at every position up to i.
FirstOfRun(s, i, pat) ==
  CHOOSE r \in 1..i :
     /\ \A m \in r..i : MatchAt(s, m, pat, FALSE)
     /\ (r > 1 => ~MatchAt(s, r - 1, pat, FALSE))

\* s.replace(/pat/g, '') for a literal pat of two characters: matches are taken left
\* to right, not overlapping, so of the occurrences that follow each other at every
\* position the first, the third, ... are matches.
RemoveAll(s, pat) ==
  LET starts == { i \in DOMAIN s : MatchAt(s, i, pat, FALSE) /\ (i - FirstOfRun(s, i, pat)) % 2 = 0 }
  IN Without(s, starts \cup { i + 1 : i \in starts })

\* WORD stands at position i of s between word boundaries.
WordAt(s, i, word) ==
  /\ MatchAt(s, i, word, TRUE)
  /\ (i = 1 \/ ~IsWordChar(s[i - 1]))
  /\ (i + Len(word) > Len(s) \/ ~IsWordChar(s[i + Len(word)]))

\* s.replace(/\bWORD\b/gi, ''): WORD is made of word characters, so \b asks for a
\* non-word character (or the string's end) on either side of the match, and no two
\* matches overlap.
RemoveWord(s, word) ==
  Without(s, { i \in DOMAIN s : \E j \in (i - Len(word) + 1)..i : WordAt(s, j, word) })

\* s.replace(/('|(\\'))+/g, '') and s.replace(/("|(\\")+)/g, ''): every quote q and
\* every backslash that stands before a q goes.
RemoveQuotes(s, q) ==
  Without(s, { i \in DOMAIN s :
                  s[i] = q \/ (s[i] = "\\" /\ i < Len(s) /\ s[i + 1] = q) })

(***************************************************************************)
(* sanitization.ts: InputSanitizer.                                        *)
(***************************************************************************)
DefaultMaxLength == 10000
AuthMaxLength == 500

DEFAULT_SANITIZATION_OPTIONS ==
  [allowHtml |-> FALSE, maxLength |-> DefaultMaxLength, trimWhitespace |-> TRUE,
   removeControlChars |-> TRUE, normalizeUnicode |-> TRUE, preventXSS |-> TRUE,
   preventSQLInjection |-> TRUE]

\* new AuthInputSanitizer(): the defaults with the constructor's options over them
AuthSanitizerOptions == [DEFAULT_SANITIZATION_OPTIONS EXCEPT !.maxLength = AuthMaxLength]

removeControlChars(s) == SelectSeq(s, LAMBDA c : ~IsControl(c))

\* String.prototype.normalize('NFC'): the characters of the model are ASCII, which
\* is in NFC already.
normalizeNFC(s) == s

preventXSS(s) ==
  LET s1 == ReplaceChar(s, "&", <<"&", "a", "m", "p", ";">>)
      s2 == ReplaceChar(s1, "<", <<"&", "l", "t", ";">>)
      s3 == ReplaceChar(s2, ">", <<"&", "g", "t", ";">>)
      s4 == ReplaceChar(s3, "\"", <<"&", "q", "u", "o", "t", ";">>)
      s5 == ReplaceChar(s4, "'", <<"&", "#", "x", "2", "7", ";">>)
      s6 == ReplaceChar(s5, "/", <<"&", "#", "x", "2", "F", ";">>)
      s7 == ReplaceChar(s6, "^g", <<"&", "#", "9", "6", ";">>)
  IN ReplaceChar(s7, "=", <<"&", "#", "6", "1", ";">>)

SQLKeywords == << <<"U", "N", "I", "O", "N">>, <<"S", "E", "L", "E", "C", "T">>,
                  <<"I", "N", "S", "E", "R", "T">>, <<"U", "P", "D", "A", "T", "E">>,
                  <<"D", "E", "L", "E", "T", "E">>, <<"D", "R", "O", "P">>,
                  <<"C", "R", "E", "A", "T", "E">>, <<"A", "L", "T", "E", "R">>,
                  <<"E", "X", "E", "C">>, <<"S", "C", "R", "I", "P", "T">> >>

RECURSIVE RemoveKeywords(_, _)
RemoveKeywords(s, k) ==
  IF k > Len(SQLKeywords) THEN s ELSE RemoveKeywords(RemoveWord(s, SQLKeywords[k]), k + 1)

preventSQLInjection(s) ==
  LET s1 == RemoveQuotes(s, "'")
      s2 == RemoveQuotes(s1, "\"")
      s3 == ReplaceChar(s2, ";", <<>>)
      s4 == RemoveAll(s3, <<"-", "-">>)
      s5 == RemoveAll(s4, <<"/", "*">>)
      s6 == RemoveAll(s5, <<"*", "/">>)
  IN RemoveKeywords(s6, 1)

\* s.replace(/<[^>]*>/g, ''): from a '<' to the next '>', when there is one
stripHTML(s) ==
  Without(s, { i \in DOMAIN s :
                  \E j \in 1..i :
                     /\ s[j] = "<"
                     /\ \A m \in (j + 1)..(i - 1) : s[m] # ">"
                     /\ \E k \in i..Len(s) : k > j /\ s[k] = ">" })

\* sanitizeString of a sanitizer with HTML disallowed (the default and the auth profile)
sanitizeString(opts, input) ==
  LET s1 == IF opts.trimWhitespace THEN trim(input) ELSE input
      s2 == IF opts.removeControlChars THEN removeControlChars(s1) ELSE s1
      s3 == IF opts.normalizeUnicode THEN normalizeNFC(s2) ELSE s2
      s4 == IF Len(s3) > opts.maxLength THEN SubSeq(s3, 1, opts.maxLength) ELSE s3
      s5 == IF opts.preventXSS THEN preventXSS(s4) ELSE s4
      s6 == IF opts.preventSQLInjection THEN preventSQLInjection(s5) ELSE s5
  IN stripHTML(s6)

(***************************************************************************)
(* validation.ts                                                           *)
(***************************************************************************)
MinPasswordLength == 8

\* /^[^\s@]+@[^\s@]+\.[^\s@]+$/
validateEmail(email) ==
  /\ \A i \in DOMAIN email : ~IsSpace(email[i])
  /\ Cardinality({ i \in DOMAIN email : email[i] = "@" }) = 1
  /\ LET at == CHOOSE i \in DOMAIN email : email[i] = "@"
     IN /\ at > 1
        /\ \E j \in (at + 2)..(Len(email) - 1) : email[j] = "."

validatePassword(password) ==
  /\ Len(password) >= MinPasswordLength
  /\ \E i \in DOMAIN password : IsLower(password[i])
  /\ \E i \in DOMAIN password : IsUpper(password[i])
  /\ \E i \in DOMAIN password : IsDigit(password[i])

\* A JSON body: absent fields and empty strings are the empty sequence (both are falsy).
signupDataValid(data) ==
  /\ data.email # <<>> /\ validateEmail(data.email)
  /\ data.password # <<>> /\ validatePassword(data.password)

loginDataValid(data) ==
  /\ data.email # <<>> /\ validateEmail(data.email)
  /\ data.password # <<>>

\* A variant that keeps the address as it was typed.
normalizeEmailAsTyped(email) == email

\* email: data.email.toLowerCase().trim()
normalizeEmail(email) == trim(toLowerCase(email))

(***************************************************************************)
(* The User Store (prisma.user over the auth_users table, with unique      *)
(* indexes on email and on verificationToken) and bcrypt.                  *)
(***************************************************************************)
MaxTokens == 3
MaxSignups == 4

\* A row has the columns id, email, password, name, emailVerified, verificationToken
\* and tokenExpiresAt; createdAt and updatedAt, which no handler reads, are left out.
\* The ids cuid() gives the rows, in order of creation:
UserIds == <<"user-1", "user-2", "user-3">>

DayMs == 24 * 60 * MinuteMs

\* crypto.randomUUID(): the n-th value drawn for a verification token
VerificationToken(n) == <<"uuid", n>>

\* null in verificationToken
NoToken == <<>>

\* bcrypt.hash(password, 12) and bcrypt.compare(password, hash)
bcryptHash(password) == [bcrypt |-> password]

bcryptCompare(password, hash) == hash = bcryptHash(password)

findByEmail(us, email) == { us[i] : i \in { j \in DOMAIN us : us[j].email = email } }

findByToken(us, token) == { us[i] : i \in { j \in DOMAIN us : us[j].verificationToken = token } }

findById(us, id) == { us[i] : i \in { j \in DOMAIN us : us[j].id = id } }

\* prisma.user.update({ where: { id }, data }): the columns data names are overwritten
updateById(us, id, data) ==
  [i \in DOMAIN us |->
     IF us[i].id = id
     THEN [f \in DOMAIN us[i] |-> IF f \in DOMAIN data THEN data[f] ELSE us[i][f]]
     ELSE us[i]]

\* select: the fields of a row that a query returns
Select(row, fields) == [f \in fields |-> row[f]]

\* Handlers that will still draw a verification token.
PendingTokens == Cardinality({ q \in Procs : reqs[q].pc \in {"signup_create", "resend_update"} })

\* Handler p sends response r and ends.
Respond(p, r) ==
  /\ resp' = r
  /\ reqs' = [reqs EXCEPT ![p] = IdleReq]

\* A handler that never waits on the User Store twice sends response r.
Answer(r) == resp' = r

Response(route, status, work) ==
  [NoResponse EXCEPT !.route = route, !.status = status, !.work = work]

(***************************************************************************)
(* The bodies the clients send.                                            *)
(***************************************************************************)
EmailPlain == <<"a", "@", "b", ".", "c">>
EmailKeyword == <<"d", "r", "o", "p", "@", "b", ".", "c">>
EmailUpper == <<"A", "@", "b", ".", "c">>
PasswordPlain == <<"P", "a", "s", "s", "w", "0", "r", "d">>
PasswordEquals == <<"P", "a", "=", "s", "w", "0", "r", "d">>

Credentials(email, password) == [NoBody EXCEPT !.email = email, !.password = password]

MalformedBody == [NoBody EXCEPT !.malformed = TRUE]

SignupBodies ==
  { Credentials(EmailPlain, PasswordPlain), Credentials(EmailPlain, PasswordEquals),
    Credentials(EmailKeyword, PasswordPlain), Credentials(<<"a", "b">>, PasswordPlain),
    Credentials(EmailPlain, <<"p", "a", "s", "s">>), MalformedBody }

\* ... and with an address typed in capitals
SignupBodiesTyped == SignupBodies \cup {Credentials(EmailUpper, PasswordPlain)}

LoginBodies ==
  { Credentials(EmailPlain, PasswordPlain), Credentials(EmailPlain, PasswordEquals),
    Credentials(EmailKeyword, PasswordPlain), Credentials(<<" ", "A", "@", "b", ".", "c">>, PasswordPlain),
    Credentials(EmailPlain, <<>>), MalformedBody }

ResendBodies ==
  { Credentials(EmailPlain, <<>>), Credentials(EmailKeyword, <<>>), NoBody, MalformedBody }

(***************************************************************************)
(* POST /api/auth/signup                                                   *)
(***************************************************************************)
SignupStart(p, body) ==
  /\ reqs[p].pc = "idle"
  /\ hist.signups < MaxSignups
  /\ nextTok + PendingTokens <= MaxTokens
  /\ hist' = [hist EXCEPT !.signups = @ + 1]
  /\ LET email == normalizeEmail(body.email)
     IN IF body.malformed
        THEN \* request.json() throws: the catch block answers
             Respond(p, [Response("signup", 500, {"parse"}) EXCEPT
                            !.error = "Internal server error"])
        ELSE IF ~signupDataValid(body)
        THEN Respond(p, [Response("signup", 400, {"parse"}) EXCEPT
                            !.error = "Validation failed"])
        ELSE IF findByEmail(users, email) # {}
        THEN Respond(p, [Response("signup", 409, {"parse", "lookup"}) EXCEPT
                            !.error = "User already exists with this email"])
        ELSE /\ reqs' = [reqs EXCEPT ![p] = [IdleReq EXCEPT !.pc = "signup_create",
                            !.route = "signup", !.body = body, !.work = {"parse", "lookup"}]]
             /\ UNCHANGED resp
  /\ UNCHANGED <<now, rlVars, jwtVars, users, nextTok, logVars, san>>

\* after bcrypt.hash: prisma.user.create, the verification email, the response
SignupCreate(p) ==
  /\ reqs[p].pc = "signup_create"
  /\ LET body == reqs[p].body
         email == normalizeEmail(body.email)
         id == UserIds[Len(users) + 1]
         row == [id |-> id, email |-> email, password |-> bcryptHash(body.password),
                 name |-> None, emailVerified |-> FALSE, verificationToken |-> VerificationToken(nextTok),
                 tokenExpiresAt |-> {now + DayMs}]
     IN IF findByEmail(users, email) # {}
        THEN \* the unique index on email rejects the row; the catch block answers
             /\ Respond(p, [Response("signup", 500, reqs[p].work \cup {"hash", "create"})
                               EXCEPT !.error = "Internal server error"])
             /\ UNCHANGED <<users, hist>>
        ELSE /\ users' = Append(users, row)
             /\ hist' = [hist EXCEPT !.accepted = @ \cup
                            {[email |-> body.email, password |-> body.password, id |-> id]}]
             /\ Respond(p, [Response("signup", 201, reqs[p].work \cup {"hash", "create", "email"})
                               EXCEPT !.message = "Account created successfully! Please check your email to verify your account.",
                                      !.user = {Select(row, {"email", "name", "emailVerified"})}])
  /\ nextTok' = nextTok + 1
  /\ UNCHANGED <<now, rlVars, jwtVars, logVars, san>>

(***************************************************************************)
(* GET /api/auth/verify-email?token=...                                    *)
(***************************************************************************)
\* user.tokenExpiresAt && new Date() > user.tokenExpiresAt
tokenExpired(user, t) == user.tokenExpiresAt # {} /\ \E e \in user.tokenExpiresAt : t > e

\* the data of the update that verifies a row
verified(t) ==
  [emailVerified |-> TRUE, verificationToken |-> NoToken, tokenExpiresAt |-> {}]

\* A response of the route, with the token of the request it answers.
VerifyResponse(token, status, work) == [Response("verify", status, work) EXCEPT !.asked = token]

VerifyFind(p, token) ==
  /\ reqs[p].pc = "idle"
  /\ LET body == [NoBody EXCEPT !.token = token]
         found == findByToken(users, token)
     IN IF token = NoToken
        THEN Respond(p, [VerifyResponse(token, 400, {}) EXCEPT
                            !.error = "Invalid verification link",
                            !.message = "Verification token is required"])
        ELSE IF found = {}
        THEN Respond(p, [VerifyResponse(token, 400, {"lookup"}) EXCEPT
                            !.error = "Invalid verification link",
                            !.message = "This verification link is invalid or has already been used"])
        ELSE LET user == CHOOSE u \in found : TRUE
             IN IF user.emailVerified
                THEN Respond(p, [VerifyResponse(token, 200, {"lookup"}) EXCEPT
                                    !.message = "Email already verified"])
                ELSE IF tokenExpired(user, now)
                THEN Respond(p, [VerifyResponse(token, 400, {"lookup"}) EXCEPT
                                    !.error = "Verification link expired",
                                    !.message = "This verification link has expired. Please request a new one."])
                ELSE /\ reqs' = [reqs EXCEPT ![p] = [IdleReq EXCEPT !.pc = "verify_update",
                                    !.route = "verify", !.body = body, !.work = {"lookup"},
                                    !.user = {Select(user, {"id", "email", "emailVerified",
                                                            "tokenExpiresAt", "name"})}]]
                     /\ UNCHANGED resp
  /\ UNCHANGED <<now, rlVars, jwtVars, users, nextTok, hist, logVars, san>>

\* prisma.user.update, the welcome email, the response
VerifyUpdate(p) ==
  /\ reqs[p].pc = "verify_update"
  /\ \E user \in reqs[p].user :
        /\ users' = updateById(users, user.id, verified(now))
        /\ Respond(p, [VerifyResponse(reqs[p].body.token, 200, reqs[p].work \cup {"update", "email"}) EXCEPT
                          !.message = "Email verified successfully! Welcome to Hayl Energy AI.",
                          !.user = {[email |-> user.email, verified |-> TRUE]}])
  /\ hist' = [hist EXCEPT !.verifiedWith = @ \cup {reqs[p].body.token}]
  /\ UNCHANGED <<now, rlVars, jwtVars, nextTok, logVars, san>>

(***************************************************************************)
(* POST /api/auth/verify-email: resend the verification email              *)
(***************************************************************************)
ResendFind(p, body) ==
  /\ reqs[p].pc = "idle"
  /\ nextTok + PendingTokens <= MaxTokens
  /\ LET found == findByEmail(users, body.email)
     IN IF body.malformed
        THEN Respond(p, [Response("resend", 500, {"parse"}) EXCEPT
                            !.error = "Failed to resend verification email"])
        ELSE IF body.email = <<>>
        THEN Respond(p, [Response("resend", 400, {"parse"}) EXCEPT
                            !.error = "Email is required"])
        ELSE IF found = {}
        THEN Respond(p, [Response("resend", 200, {"parse", "lookup"}) EXCEPT
                            !.message = "If an account with that email exists, a verification email has been sent."])
        ELSE LET user == CHOOSE u \in found : TRUE
             IN IF user.emailVerified
                THEN Respond(p, [Response("resend", 400, {"parse", "lookup"}) EXCEPT
                                    !.error = "Email already verified"])
                ELSE /\ reqs' = [reqs EXCEPT ![p] = [IdleReq EXCEPT !.pc = "resend_update",
                                    !.route = "resend", !.body = body,
                                    !.work = {"parse", "lookup"},
                                    !.user = {Select(user, {"id", "email", "emailVerified", "name"})}]]
                     /\ UNCHANGED resp
  /\ UNCHANGED <<now, rlVars, jwtVars, users, nextTok, hist, logVars, san>>

\* the data of the update that issues a new verification token
reissued(token, t) ==
  [verificationToken |-> token, tokenExpiresAt |-> {t + DayMs}]

ResendUpdate(p) ==
  /\ reqs[p].pc = "resend_update"
  /\ \E user \in reqs[p].user :
        users' = updateById(users, user.id, reissued(VerificationToken(nextTok), now))
  /\ nextTok' = nextTok + 1
  /\ Respond(p, [Response("resend", 200, reqs[p].work \cup {"update", "email"}) EXCEPT
                    !.message = "Verification email sent successfully!"])
  /\ UNCHANGED <<now, rlVars, jwtVars, hist, logVars, san>>

(***************************************************************************)
(* POST /api/auth/login                                                    *)
(***************************************************************************)
MaxJti == 4

\* authSanitizer.sanitizeObject(body): every string of the body goes through
\* sanitizeString; the keys "email" and "password" come out of it unchanged.
sanitizeObject(opts, body) ==
  [body EXCEPT !.email = sanitizeString(opts, body.email),
               !.password = sanitizeString(opts, body.password)]

\* authSanitizer.sanitizeObject(body), for each body a client sends
SanitizedLoginBody == [body \in LoginBodies |-> sanitizeObject(AuthSanitizerOptions, body)]

\* Logins that will still draw token ids.
PendingLogins == Cardinality({ q \in Procs : reqs[q].pc = "login_parse" })

\* Math.ceil(ms / 1000)
ceilSeconds(ms) == (ms + 999) \div 1000

\* rate-limit.ts middleware: the headers of the 429 response it builds itself.  (The
\* X-RateLimit headers of an allowed request are set on the response of the handler
\* it was given, which in the login route is a placeholder the route drops.)
tooManyRequestsHeaders(lim, r, t) ==
  { [name |-> "X-RateLimit-Limit", value |-> maxRequests(lim)],
    [name |-> "X-RateLimit-Remaining", value |-> r.remaining],
    [name |-> "X-RateLimit-Reset", value |-> r.resetTime],
    [name |-> "Retry-After", value |-> ceilSeconds(r.resetTime - t)] }

\* authRateLimit.middleware comes first: it counts the request and answers 429 itself.
LoginStart(p, h, body) ==
  /\ reqs[p].pc = "idle"
  /\ nextId + 2 * PendingLogins + 1 <= MaxJti
  /\ LET key == keyGenerator("authRateLimit", h)
         r == checkResult(store, "authRateLimit", key, now)
         w == WindowAfterCall(gwin[key], "authRateLimit", now, r, FALSE)
     IN /\ store[key].count < CountCap(key)
        /\ store' = increment(store, key, windowMs("authRateLimit"), now)
        /\ gwin' = [gwin EXCEPT ![key] = w]
        /\ IF ~r.allowed
           THEN Respond(p, [Response("login", 429, {}) EXCEPT
                               !.error = "Too many requests",
                               !.headers = tooManyRequestsHeaders("authRateLimit", r, now)])
           ELSE /\ reqs' = [reqs EXCEPT ![p] = [IdleReq EXCEPT !.pc = "login_parse",
                               !.route = "login", !.body = body]]
                /\ UNCHANGED resp
  /\ UNCHANGED <<now, rl, mw, jwtVars, users, nextTok, hist, logVars, san>>

\* A variant that lets an unverified user in.
credentialCheckNoVerification(found, password) ==
  IF found = {} THEN "not_found"
  ELSE IF ~bcryptCompare(password, (CHOOSE u \in found : TRUE).password) THEN "bad_password"
  ELSE "ok"

\* The three checks after findUnique, in the order of the handler.
credentialCheck(found, password) ==
  IF found = {} THEN "not_found"
  ELSE LET user == CHOOSE u \in found : TRUE
       IN IF ~bcryptCompare(password, user.password) THEN "bad_password"
          ELSE IF ~user.emailVerified THEN "unverified"
          ELSE "ok"

\* A variant that tells an unknown email from a wrong password.
loginFailureTelling(route, outcome, work) ==
  IF outcome = "not_found"
  THEN [Response(route, 404, work) EXCEPT !.error = "User not found"]
  ELSE IF outcome = "bad_password"
  THEN [Response(route, 401, work) EXCEPT !.error = "Invalid email or password"]
  ELSE [Response(route, 403, work) EXCEPT
           !.error = "Please verify your email before logging in", !.code = "EMAIL_NOT_VERIFIED"]

\* The response to a login whose credential check did not end in "ok".
loginFailure(route, outcome, work) ==
  IF outcome = "not_found"
  THEN [Response(route, 401, work) EXCEPT !.error = "Invalid email or password"]
  ELSE IF outcome = "bad_password"
  THEN [Response(route, 401, work) EXCEPT !.error = "Invalid email or password"]
  ELSE [Response(route, 403, work) EXCEPT
           !.error = "Please verify your email before logging in", !.code = "EMAIL_NOT_VERIFIED"]

\* JWTService.createTokenPair
createTokenPair(payload, jti, t) ==
  [accessToken |-> signAccessToken([userId |-> payload.userId, email |-> payload.email,
                                    sessionId |-> None], jti, t),
   refreshToken |-> signRefreshToken([userId |-> payload.userId, email |-> payload.email,
                                      sessionId |-> None], jti + 1, t)]

AccessCookieMaxAge == 15 * 60
RefreshCookieMaxAge == 60 * 60 * 24 * 7

\* The handler after the rate limit: body, sanitizer, validation, findUnique, bcrypt,
\* tokens, cookies.  After findUnique it reads nothing shared but the clock.
LoginFinish(p) ==
  /\ reqs[p].pc = "login_parse"
  /\ LET body == reqs[p].body
         sanitizedBody == SanitizedLoginBody[body]
         email == normalizeEmail(sanitizedBody.email)
         found == findByEmail(users, email)
         outcome == credentialCheck(found, sanitizedBody.password)
     IN IF body.malformed
        THEN /\ Respond(p, [Response("login", 500, {"parse"}) EXCEPT
                               !.error = "Internal server error"])
             /\ UNCHANGED <<minted, nextId>>
        ELSE IF ~loginDataValid(sanitizedBody)
        THEN /\ Respond(p, [Response("login", 400, {"parse"}) EXCEPT
                               !.error = "Validation failed"])
             /\ UNCHANGED <<minted, nextId>>
        ELSE IF outcome # "ok"
        THEN /\ Respond(p, loginFailure("login", outcome,
                                        IF outcome = "not_found" THEN {"parse", "lookup"}
                                        ELSE {"parse", "lookup", "hash"}))
             /\ UNCHANGED <<minted, nextId>>
        ELSE LET user == CHOOSE u \in found : TRUE
                 pair == createTokenPair([userId |-> user.id, email |-> user.email], nextId, now)
             IN /\ Respond(p, [Response("login", 200, {"parse", "lookup", "hash"}) EXCEPT
                                  !.message = "Login successful",
                                  !.user = {Select(user, {"id", "email", "name", "emailVerified"})},
                                  !.token = {pair.accessToken},
                                  !.cookies = {[name |-> "access-token", value |-> pair.accessToken,
                                                maxAge |-> AccessCookieMaxAge],
                                               [name |-> "refresh-token", value |-> pair.refreshToken,
                                                maxAge |-> RefreshCookieMaxAge],
                                               [name |-> "auth-token", value |-> pair.accessToken,
                                                maxAge |-> AccessCookieMaxAge]}])
                \* the client keeps the tokens of its latest login
                /\ minted' = {[tok |-> pair.accessToken, by |-> "signAccessToken"],
                              [tok |-> pair.refreshToken, by |-> "signRefreshToken"]}
                /\ nextId' = nextId + 2
  /\ UNCHANGED <<now, rlVars, env, jres, users, nextTok, hist, logVars, san>>

(***************************************************************************)
(* POST /api/auth/logout                                                   *)
(***************************************************************************)
\* the empty string the route sets as the cookie's value
EmptyCookieValue == [GarbageToken EXCEPT !.sig = ""]

\* The handler reads nothing of the request and nothing of the store.
Logout ==
  /\ Answer([Response("logout", 200, {}) EXCEPT
                !.message = "Logout successful",
                !.cookies = {[name |-> "auth-token", value |-> EmptyCookieValue, maxAge |-> 0]}])
  /\ UNCHANGED <<now, rlVars, jwtVars, users, nextTok, reqs, hist, logVars, san>>

(***************************************************************************)
(* auth.ts, GET /api/auth/me and the page middleware.                      *)
(***************************************************************************)
\* What a client can put into a header or a cookie: the tokens of its latest login
\* and garbage, each with the function that signed it.
Presentable == minted \cup {[tok |-> GarbageToken, by |-> None]}

\* a header or a cookie: absent, or one presentable token
Optional(S) == {{}} \cup { {x} : x \in S }

\* auth.ts verifyToken: jwtVerify(token, secret) with secret = JWT_SECRET, no options;
\* the payload, or NoPayload for null.
verifyToken(token, t) ==
  IF jwtVerify(token, env.JWT_SECRET, FALSE, FALSE, t) THEN PayloadOf(token) ELSE NoPayload

\* auth.ts getTokenFromRequest: the Bearer header, else the auth-token cookie
getTokenFromRequest(bearer, authCookie) == IF bearer # {} THEN bearer ELSE authCookie

\* jwt.ts JWTService.getTokenFromRequest: accessToken || accessTokenFromCookie, and the
\* refresh token from its cookie
JWTServiceGetTokenFromRequest(bearer, accessCookie, refreshCookie) ==
  [accessToken |-> IF bearer # {} THEN bearer ELSE accessCookie,
   refreshToken |-> refreshCookie]

\* auth.ts getCurrentUser
getCurrentUser(bearer, authCookie, t) ==
  LET token == getTokenFromRequest(bearer, authCookie)
  IN IF token = {} THEN NoPayload ELSE verifyToken((CHOOSE m \in token : TRUE).tok, t)

\* What a response tells about the token its request presented.
PresentedBy(token) == { [by |-> m.by, exp |-> m.tok.exp] : m \in token }

\* The response of GET /api/auth/me to a request with that header and that cookie.
meResponse(bearer, authCookie) ==
  LET currentUser == getCurrentUser(bearer, authCookie, now)
      found == findById(users, currentUser.userId)
      presented == PresentedBy(getTokenFromRequest(bearer, authCookie))
  IN IF currentUser = NoPayload
     THEN [Response("me", 401, {}) EXCEPT !.error = "Unauthorized - No valid token provided",
                                          !.presented = presented]
     ELSE IF found = {}
     THEN [Response("me", 404, {"lookup"}) EXCEPT !.error = "User not found",
                                                  !.presented = presented]
     ELSE [Response("me", 200, {"lookup"}) EXCEPT
              !.user = { Select(u, {"id", "email", "name"}) : u \in found },
              !.presented = presented]

\* getCurrentUser awaits only the cookie store and jose, then comes the one findUnique.
MeGet(bearer, authCookie) ==
  /\ Answer(meResponse(bearer, authCookie))
  /\ UNCHANGED <<now, rlVars, jwtVars, users, nextTok, reqs, hist, logVars, san>>

StartsWith(s, prefix) == Len(prefix) <= Len(s) /\ SubSeq(s, 1, Len(prefix)) = prefix

Dashboard == <<"/", "d", "a", "s", "h", "b", "o", "a", "r", "d">>

protectedRoutes == {Dashboard, <<"/", "p", "r", "o", "f", "i", "l", "e">>, <<"/", "s", "e", "t", "t", "i", "n", "g", "s">>}
authRoutes == {<<"/", "l", "o", "g", "i", "n">>, <<"/", "s", "i", "g", "n", "u", "p">>}
publicRoutes == {<<"/", "a", "p", "i">>, <<"/", "_", "n", "e", "x", "t">>, <<"/", "f", "a", "v", "i", "c", "o", "n", ".", "i", "c", "o">>}

\* the pages requested and the values of their ?redirect= parameter
Pathnames == {<<"/", "d", "a", "s", "h", "b", "o", "a", "r", "d">>, <<"/", "l", "o", "g", "i", "n">>, <<"/">>, <<"/", "a", "p", "i", "/", "a", "u", "t", "h", "/", "m", "e">>, <<"/", "a", "b", "o", "u", "t">>}
RedirectParams == {<<>>, <<"/", "p", "r", "o", "f", "i", "l", "e">>, <<"/", "l", "o", "g", "i", "n">>, <<"/", "/", "e", "v", "i", "l", ".", "c", "o", "m">>}

\* request.nextUrl.search of a request with that redirect parameter
searchOf(redirectParam) ==
  IF redirectParam = <<>> THEN <<>> ELSE <<"?", "r", "e", "d", "i", "r", "e", "c", "t", "=">> \o redirectParam

\* new URL(ref, request.url) for a ref that starts with "/": a second "/" or "\"
\* makes ref a network-path reference, whose first part is the host
resolveURL(ref) ==
  IF Len(ref) >= 2 /\ ref[2] \in {"/", "\\"}
  THEN [host |-> SelectSeq(SubSeq(ref, 3, Len(ref)), LAMBDA c : c # "/"), pathname |-> <<"/">>,
        redirect |-> <<>>]
  ELSE [host |-> <<>>, pathname |-> ref, redirect |-> <<>>]

\* a URL of the site itself
SameOrigin(pathname, redirect) == [host |-> <<>>, pathname |-> pathname, redirect |-> redirect]

\* redirectParam && redirectParam.startsWith('/') && !authRoutes.includes(redirectParam)
redirectAllowed(redirectParam) ==
  redirectParam # <<>> /\ StartsWith(redirectParam, <<"/">>) /\ redirectParam \notin authRoutes

\* Where the middleware sends the request: {} for NextResponse.next(), else the
\* URL of NextResponse.redirect.
middlewareTarget(pathname, redirectParam, user) ==
  LET isPublicRoute == \E r \in publicRoutes : StartsWith(pathname, r)
      isProtectedRoute == \E r \in protectedRoutes : StartsWith(pathname, r)
      isAuthRoute == \E r \in authRoutes : StartsWith(pathname, r)
      authenticated == user # NoPayload
  IN IF isPublicRoute THEN {}
     ELSE IF isProtectedRoute /\ ~authenticated
     THEN {SameOrigin(<<"/", "l", "o", "g", "i", "n">>, pathname \o searchOf(redirectParam))}
     ELSE IF isAuthRoute /\ authenticated
     THEN IF redirectAllowed(redirectParam) THEN {resolveURL(redirectParam)}
          ELSE {SameOrigin(<<"/", "d", "a", "s", "h", "b", "o", "a", "r", "d">>, <<>>)}
     ELSE IF pathname = <<"/">>
     THEN IF authenticated
          THEN IF redirectAllowed(redirectParam) THEN {resolveURL(redirectParam)}
               ELSE {SameOrigin(<<"/", "d", "a", "s", "h", "b", "o", "a", "r", "d">>, <<>>)}
          ELSE {SameOrigin(<<"/", "l", "o", "g", "i", "n">>, redirectParam)}
     ELSE {}

TemporaryRedirect == 307

\* middleware.ts: the auth-token cookie, else the Authorization header without 'Bearer '
Middleware(pathname, redirectParam, bearer, authCookie) ==
  /\ LET token == IF authCookie # {} THEN authCookie ELSE bearer
         user == IF token = {} THEN NoPayload ELSE verifyToken((CHOOSE m \in token : TRUE).tok, now)
         target == middlewareTarget(pathname, redirectParam, user)
     IN Answer([Response("page", IF target = {} THEN 200 ELSE TemporaryRedirect, {})
                       EXCEPT !.location = target, !.path = pathname,
                              !.presented = PresentedBy(token)])
  /\ UNCHANGED <<now, rlVars, jwtVars, users, nextTok, reqs, hist, logVars, san>>

(***************************************************************************)
(* The requests the clients send, the clock, and the specification of the  *)
(* route handlers running together.                                        *)
(***************************************************************************)
MaxAuthMinutes == 15

VerifyTokens == {NoToken} \cup { VerificationToken(n) : n \in 1..MaxTokens }

\* The clock moves by a quarter of an hour ...
QuarterTick ==
  /\ (now % DayMs) + 15 * MinuteMs <= MaxAuthMinutes * MinuteMs
  /\ now' = now + 15 * MinuteMs
  /\ UNCHANGED <<rlVars, jwtVars, authVars, logVars, san>>

\* ... or, once, by a day.
DayTick ==
  /\ now < DayMs
  /\ now' = now + DayMs
  /\ UNCHANGED <<rlVars, jwtVars, authVars, logVars, san>>

AuthInit ==
  /\ now = 0
  /\ store = [k \in Keys |-> NoEntry]
  /\ rl = [p \in Procs |-> IdleCall]
  /\ gwin = [k \in Keys |-> NoWindow]
  /\ mw = NoMiddleware
  /\ env \in Envs
  /\ minted = {}
  /\ nextId = 1
  /\ jres = NoVerification
  /\ AuthIdle
  /\ flushInterval = FALSE

\* The account routes, with two handlers in flight.
AccountsNext ==
  \/ \E p \in Procs, body \in SignupBodies : SignupStart(p, body)
  \/ \E p \in Procs : SignupCreate(p)
  \/ \E p \in Procs, token \in VerifyTokens : VerifyFind(p, token)
  \/ \E p \in Procs : VerifyUpdate(p)
  \/ \E p \in Procs, body \in ResendBodies : ResendFind(p, body)
  \/ \E p \in Procs : ResendUpdate(p)
  \/ QuarterTick
  \/ DayTick

SpecAccounts == AuthInit /\ [][AccountsNext]_vars

\* One client that signs up, verifies, logs in and uses its tokens, one request at a time.
Client == CHOOSE p \in Procs : TRUE

\* the requests of that client come from one address, directly or through a proxy
ClientDevices == { h \in ClientHeaders : CountCap(defaultKeyGenerator(h)) = MaxCount }

\* the client carries a token in the Authorization header or in the auth-token
\* cookie, and not in both
Carried ==
  { [bearer |-> b, authCookie |-> c] :
       <<b, c>> \in { x \in Optional(Presentable) \X Optional(Presentable) :
                        x[1] = {} \/ x[2] = {} } }

SessionNext ==
  \/ \E body \in SignupBodies : SignupStart(Client, body)
  \/ SignupCreate(Client)
  \/ \E token \in VerifyTokens : VerifyFind(Client, token)
  \/ VerifyUpdate(Client)
  \/ \E h \in ClientDevices, body \in LoginBodies : LoginStart(Client, h, body)
  \/ LoginFinish(Client)
  \/ \E c \in Carried : reqs[Client].pc = "idle" /\ MeGet(c.bearer, c.authCookie)
  \/ \E c \in Carried :
        reqs[Client].pc = "idle" /\ Middleware(Dashboard, <<>>, c.bearer, c.authCookie)
  \/ QuarterTick

SpecSession == AuthInit /\ [][SessionNext]_vars

(***************************************************************************)
(* Claims about the login route.                                           *)
(***************************************************************************)
\* The step in which the login handler p, past the rate limit, sends its response.
LoginResponds(p) == reqs[p].pc = "login_parse" /\ reqs'[p].pc = "idle"

\* The rows with the email the login handler p looks up.
RowsLookedUp(p) ==
  { i \in DOMAIN users : users[i].email = normalizeEmail(SanitizedLoginBody[reqs[p].body].email) }

\* Those of them whose hash the password the handler compares matches.
RowsMatched(p) ==
  { i \in RowsLookedUp(p) :
       bcryptCompare(SanitizedLoginBody[reqs[p].body].password, users[i].password) }

CookieNames(r) == { c.name : c \in r.cookies }

Told(r) == [status |-> r.status, error |-> r.error, code |-> r.code, message |-> r.message,
            token |-> r.token, cookies |-> r.cookies, user |-> r.user]

InvalidCredentials ==
  [status |-> 401, error |-> "Invalid email or password", code |-> None, message |-> None,
   token |-> {}, cookies |-> {}, user |-> {}]

LoginPath == <<"/", "l", "o", "g", "i", "n">>

\* C7: a request that presents a token minted by signRefreshToken is not authenticated:
\* GET /auth/me answers 401 and the middleware sends a protected page to /login,
\* whether the refresh secret is its own or falls back to the access secret.
C7_RefreshTokenNeverAuthenticates ==
  \A t \in resp.presented : t.by = "signRefreshToken" =>
     /\ resp.route = "me" => resp.status = 401
     /\ (resp.route = "page" /\ \E r \in protectedRoutes : StartsWith(resp.path, r)) =>
           \E l \in resp.location : l.host = <<>> /\ l.pathname = LoginPath

\* C8: the rate limit comes before all other work in both routes: the request that is
\* the 6th login of its client within the 15 minutes window, and the 4th signup
\* within 60 minutes, is answered 429 at once, and a request answered 429 has parsed
\* no body, read or written no row and hashed nothing.
C8_RateLimitComesFirst ==
  [][/\ \A k \in Keys :
           (gwin'[k] # gwin[k] /\ gwin'[k].n > AuthMaxRequests) =>
              resp'.route = "login" /\ resp'.status = 429
     /\ ( /\ hist'.signups # hist.signups
          /\ hist'.signups > SignupMaxRequests
          /\ now < windowMs("signupRateLimit") ) =>
              resp'.route = "signup" /\ resp'.status = 429
     /\ (resp' # resp /\ resp'.status = 429) => resp'.work = {}]_vars

\* the headers that tell a client its rate limit
RateLimitHeaders == {"X-RateLimit-Limit", "X-RateLimit-Remaining", "X-RateLimit-Reset"}

HeaderNames(r) == { h.name : h \in r.headers }

\* C18: every response of POST /auth/login, whatever its status, carries
\* X-RateLimit-Limit, X-RateLimit-Remaining and X-RateLimit-Reset; a 429 also carries
\* Retry-After, and its X-RateLimit-Remaining is 0.
C18_LoginCarriesRateLimitHeaders ==
  resp.route = "login" =>
     /\ RateLimitHeaders \subseteq HeaderNames(resp)
     /\ resp.status = 429 =>
           /\ "Retry-After" \in HeaderNames(resp)
           /\ \A h \in resp.headers : h.name = "X-RateLimit-Remaining" => h.value = 0

\* C9: for an email and a password that POST /auth/signup accepted with 201, once the
\* row is verified, a login with the same email and password that is past the rate
\* limit is answered 200 with a token and the access and refresh cookies; and GET
\* /auth/me with an access token that has not expired answers 200 with the user of the
\* token and no password field.
C9_CredentialsRoundTrip ==
  [][/\ \A p \in Procs :
           ( /\ LoginResponds(p)
             /\ \E a \in hist.accepted :
                   /\ a.email = reqs[p].body.email
                   /\ a.password = reqs[p].body.password
                   /\ \E u \in findById(users, a.id) : u.emailVerified )
           => /\ resp'.status = 200
              /\ resp'.token # {}
              /\ {"access-token", "refresh-token"} \subseteq CookieNames(resp')
     /\ \A m \in minted :
           (m.by = "signAccessToken" /\ epoch(now) < m.tok.exp) =>
              LET r == meResponse({m}, {})
              IN /\ r.status = 200
                 /\ r.user # {}
                 /\ \A u \in r.user : u.id = m.tok.userId /\ "password" \notin DOMAIN u]_vars

(***************************************************************************)
(* Claims about the verification of the email.                             *)
(***************************************************************************)
\* C10: emailVerified of a row changes from FALSE to TRUE only in the update of a GET
\* /auth/verify-email whose token is, when the row changes, the verificationToken of
\* that row, with the row's tokenExpiresAt not passed; the update sets
\* verificationToken and tokenExpiresAt to null and the response is 200.  A GET
\* without a token, with a token no row has, or with the token of a row whose
\* tokenExpiresAt has passed is answered 400 and changes no row.
C10_VerifiedOnlyByCurrentToken ==
  [][/\ \A i \in DOMAIN users :
           (~users[i].emailVerified /\ users'[i].emailVerified) =>
              /\ \E p \in Procs :
                    /\ reqs[p].pc = "verify_update" /\ reqs'[p].pc = "idle"
                    /\ \A u \in reqs[p].user : u.id = users[i].id
                    /\ reqs[p].body.token # NoToken
                    /\ reqs[p].body.token = users[i].verificationToken
                    /\ \A e \in users[i].tokenExpiresAt : now <= e
              /\ users'[i].verificationToken = NoToken
              /\ users'[i].tokenExpiresAt = {}
              /\ resp'.route = "verify" /\ resp'.status = 200
     /\ ( /\ resp' # resp
          /\ resp'.route = "verify"
          /\ \/ resp'.asked = NoToken
             \/ \A i \in DOMAIN users : users[i].verificationToken # resp'.asked
             \/ \E i \in DOMAIN users :
                   /\ users[i].verificationToken = resp'.asked
                   /\ \E e \in users[i].tokenExpiresAt : now > e )
         => resp'.status = 400 /\ users' = users]_vars

\* The step in which the GET handler p runs its update and answers.
VerifyPerforms(p) == reqs[p].pc = "verify_update" /\ reqs'[p].pc = "idle"

\* C11: a verification token is used once: a GET /auth/verify-email performs the
\* verification (the update of the row, the welcome email, 200 'Email verified
\* successfully') only with a token no earlier request has performed it with, and a
\* request with a token that has been used is answered 400.
C11_TokenUsedOnce ==
  [][/\ \A p \in Procs :
           VerifyPerforms(p) => reqs[p].body.token \notin hist.verifiedWith
     /\ ( /\ resp' # resp
          /\ resp'.route = "verify"
          /\ resp'.asked \in hist.verifiedWith )
         => resp'.status = 400]_vars

\* What the resend route answers for an address no row has.
NoAccountAnswer ==
  [status |-> 200, error |-> None, code |-> None,
   message |-> "If an account with that email exists, a verification email has been sent.",
   token |-> {}, cookies |-> {}, user |-> {}]

\* C12: POST /auth/verify-email does not tell whether an address has an account: the
\* request for the address of an unverified row is answered 200, and every 200 of
\* the route, for an address no row has and for the address of an unverified row,
\* is the same response.
C12_ResendDoesNotTellAccounts ==
  [][/\ \A p \in Procs :
           (reqs[p].pc = "resend_update" /\ reqs'[p].pc = "idle") => resp'.status = 200
     /\ (resp' # resp /\ resp'.route = "resend" /\ resp'.status = 200)
           => Told(resp') = NoAccountAnswer]_vars

\* C25: in every state of the User Store, under any interleaving of signup, resend and
\* verify requests, a row with emailVerified = true has verificationToken = null and
\* tokenExpiresAt = null, so that no verification token leads to a verified row.
C25_VerifiedRowsHoldNoToken ==
  \A i \in DOMAIN users :
     users[i].emailVerified =>
        /\ users[i].verificationToken = NoToken
        /\ users[i].tokenExpiresAt = {}

\* C26: a row has at most one usable verification token: once a resend has given an
\* unverified row a new token, a GET /auth/verify-email with a token issued before is
\* answered 400 and verifies no row; the update of a GET verifies a row that holds a
\* token only with the token the row holds.
C26_OnlyNewestTokenVerifies ==
  [][/\ \A p \in Procs, token \in VerifyTokens :
           ( /\ VerifyFind(p, token)
             /\ \E n \in 1..(nextTok - 1) : token = VerificationToken(n)
             /\ findByToken(users, token) = {} )
           => resp'.status = 400 /\ users' = users
     /\ \A p \in Procs :
           VerifyPerforms(p) =>
              \A u \in reqs[p].user :
                 \A row \in findById(users, u.id) :
                    (~row.emailVerified /\ row.verificationToken # NoToken)
                       => row.verificationToken = reqs[p].body.token]_vars

\* Signups alone, two handlers in flight.
SignupNext ==
  \/ \E p \in Procs, body \in SignupBodiesTyped : SignupStart(p, body)
  \/ \E p \in Procs : SignupCreate(p)
  \/ QuarterTick

SpecSignup == AuthInit /\ [][SignupNext]_vars

C24_ConcurrentSignups ==
  [][\A p \in Procs :
        SignupCreate(p) =>
           LET email == normalizeEmail(reqs[p].body.email)
           IN /\ resp'.route = "signup"
              /\ resp'.status = (IF findByEmail(users, email) = {} THEN 201 ELSE 409)
              /\ Cardinality({ i \in DOMAIN users' : users'[i].email = email }) = 1]_vars

(***************************************************************************)
(* Claims about logout and about the life of a token.                      *)
(***************************************************************************)
\* Strings that were not signed by this service's functions, or not for it: no JWT, a
\* token signed with another secret, tokens with another issuer, another audience,
\* another type, and a token of auth.ts signToken (no issuer, audience or type, 7 days).
OneUser == CHOOSE payload \in JPayloads : TRUE

ForeignTokens ==
  LET t == signAccessToken(OneUser, 0, now)
  IN { [tok |-> x, by |-> None] :
         x \in { GarbageToken,
                 [t EXCEPT !.sig = "secret-x"],
                 [t EXCEPT !.iss = "other"],
                 [t EXCEPT !.aud = "other"],
                 [t EXCEPT !.type = "admin"],
                 [t EXCEPT !.iss = None, !.aud = None, !.type = None,
                           !.exp = epoch(now) + RefreshTokenExpiresSec] } }

\* The token service with logout ...
TokensNext ==
  \/ JNext
  \/ Logout

SpecTokens == JInit /\ [][TokensNext]_vars

\* ... and, for one user, with strings from elsewhere.
TokenInputsNext ==
  \/ JSignAccess(OneUser)
  \/ JSignRefresh(OneUser)
  \/ \E m \in minted \cup ForeignTokens : JVerify(m)
  \/ JTick

SpecTokenInputs == JInit /\ [][TokenInputsNext]_vars

\* the cookies the login route sets
SessionCookies == {"access-token", "refresh-token", "auth-token"}

\* C14: POST /auth/logout answers 200 and, for each of the cookies that login sets
\* (access-token, refresh-token and auth-token), sets that cookie with Max-Age 0.
C14_LogoutExpiresSessionCookies ==
  resp.route = "logout" =>
     /\ resp.status = 200
     /\ \A n \in SessionCookies : \E c \in resp.cookies : c.name = n /\ c.maxAge = 0

\* C15: whether verifyAccessToken accepts a token of signAccessToken depends on the
\* clock alone: it accepts it, with its payload, at every time before the token's exp
\* (15 minutes after it was signed), also when a logout has been answered before, and
\* rejects it at every time after exp.
C15_AcceptedUntilExpiry ==
  jres.by = "signAccessToken" =>
     /\ jres.exp = jres.tok.iat + AccessTokenExpiresSec
     /\ jres.at < jres.exp * 1000 => jres.asAccess = PayloadOf(jres.tok)
     /\ jres.at > jres.exp * 1000 => jres.asAccess = NoPayload

\* C15 witness: after a logout, an access token that has not expired was accepted.
C15_Witness ==
  /\ jres.by = "signAccessToken"
  /\ jres.afterLogout
  /\ jres.at > jres.tok.iat * 1000
  /\ jres.at < jres.exp * 1000
  /\ jres.asAccess = PayloadOf(jres.tok)

\* In place of a result: the call threw.
Thrown == [NoPayload EXCEPT !.type = "thrown"]

\* Token tok is signed with secret for this service, is of type type and has not
\* expired at time t.
TokenValid(tok, type, secret, t) ==
  /\ ~tok.malformed
  /\ tok.sig = secret
  /\ tok.iss = ISSUER
  /\ tok.aud = AUDIENCE
  /\ tok.type = type
  /\ epoch(t) < tok.exp

PagesNext ==
  \/ \E payload \in JPayloads : JSignAccess(payload)
  \/ \E payload \in JPayloads : JSignRefresh(payload)
  \/ \E pathname \in Pathnames, redirectParam \in RedirectParams,
        bearer \in Optional(Presentable), authCookie \in Optional(Presentable) :
        Middleware(pathname, redirectParam, bearer, authCookie)
  \/ QuarterTick

SpecPages == AuthInit /\ [][PagesNext]_vars

\* C29: the Location of every redirect the page middleware returns has the origin of
\* the request URL, for any path, any redirect parameter, authenticated or not.
C29_RedirectsStayInside ==
  resp.route = "page" => \A location \in resp.location : location.host = <<>>

\* C17: JWTService.getTokenFromRequest, auth.ts getTokenFromRequest and the page
\* middleware take the token of a request the same way: the token of the
\* Authorization header when there is one, also when a token cookie is there, and
\* the cookie's token only when there is no Bearer header.
C17_HeaderBeforeCookie ==
  [][\A bearer \in Optional(Presentable), cookie \in Optional(Presentable) :
        LET expected == IF bearer # {} THEN bearer ELSE cookie
        IN /\ JWTServiceGetTokenFromRequest(bearer, cookie, {}).accessToken = expected
           /\ getTokenFromRequest(bearer, cookie) = expected
           /\ \A pathname \in Pathnames, redirectParam \in RedirectParams :
                 Middleware(pathname, redirectParam, bearer, cookie)
                    => resp'.presented = PresentedBy(expected)]_vars

(***************************************************************************)
(* auth-logger (src/lib/cors.ts): class AuthLogger and its singleton.      *)
(* toISOString() writes an instant in a fixed width, so two timestamps     *)
(* compare as their instants do: a timestamp is the instant, in            *)
(* milliseconds.                                                           *)
(***************************************************************************)
maxBufferSize == 1000

MaxAlertBufferSize == 100

FiveMinutesMs == 5 * 60 * 1000

OneHourMs == 60 * 60 * 1000

\* The requests the logger is called with: the client headers, request.ip and the
\* user-agent header.
LogRequests ==
  { [headers |-> [forwarded |-> <<"10.0.0.1", "10.9.9.9">>, realIp |-> None, clientIp |-> None],
     ip |-> None, userAgent |-> "Mozilla"],
    [headers |-> [forwarded |-> <<"::1">>, realIp |-> "10.0.0.1", clientIp |-> None],
     ip |-> None, userAgent |-> None],
    [headers |-> [forwarded |-> <<>>, realIp |-> None, clientIp |-> None],
     ip |-> "10.0.0.1", userAgent |-> "curl"] }

\* extractClientInfo: forwarded?.split(',')[0]?.trim() || realIp || clientIp ||
\* request.ip || 'unknown', with '::1' turned into '127.0.0.1'
extractClientInfo(request) ==
  LET h == request.headers
      ip == IF Len(h.forwarded) > 0 THEN h.forwarded[1]
            ELSE IF h.realIp # None THEN h.realIp
            ELSE IF h.clientIp # None THEN h.clientIp
            ELSE IF request.ip # None THEN request.ip
            ELSE "unknown"
  IN [ip |-> IF ip = "::1" THEN "127.0.0.1" ELSE ip,
      userAgent |-> IF request.userAgent # None THEN request.userAgent ELSE "unknown"]

\* The data of a call: userId and email are None when the caller leaves them out.
LogData(userId, email) == [userId |-> userId, email |-> email]

\* getRecentFailures, at time t
getRecentFailures(ip, email, t) ==
  Len(SelectSeq(logBuffer', LAMBDA entry :
        /\ entry.timestamp > t - FiveMinutesMs
        /\ entry.event = "login_failure"
        /\ (entry.ip = ip \/ (email # None /\ entry.email = email))))

\* getRecentSignups, at time t
getRecentSignups(ip, t) ==
  Len(SelectSeq(logBuffer', LAMBDA entry :
        /\ entry.timestamp > t - OneHourMs
        /\ entry.event = "signup_attempt"
        /\ entry.ip = ip))

\* getRecentTokenIssues, at time t
getRecentTokenIssues(ip, t) ==
  Len(SelectSeq(logBuffer', LAMBDA entry :
        /\ entry.timestamp > t - OneHourMs
        /\ entry.event \in {"invalid_token", "token_expired"}
        /\ entry.ip = ip))

\* `${userAgent}:${ip}`
deviceKey(userAgent, ip) == userAgent \o ":" \o ip

\* isNewDevice: userLogins is taken from the buffer the entry was pushed to.
isNewDevice(userId, userAgent, ip) ==
  LET userLogins == SelectSeq(logBuffer', LAMBDA entry :
                       entry.userId = userId /\ entry.event = "login_success")
      knownDevices == { deviceKey(userLogins[i].userAgent, userLogins[i].ip) :
                           i \in DOMAIN userLogins }
  IN IF Len(userLogins) > 1 THEN deviceKey(userAgent, ip) \notin knownDevices ELSE FALSE

\* createSecurityAlert cutting the buffer to its first 100 alerts
createSecurityAlertKeepOldest(alerts, level, type, message, entry) ==
  LET alert == [level |-> level, type |-> type, message |-> message,
                userId |-> entry.userId, ip |-> entry.ip, timestamp |-> entry.timestamp,
                metadata |-> [event |-> entry.event, userAgent |-> entry.userAgent]]
      pushed == Append(alerts, alert)
  IN IF Len(pushed) > MaxAlertBufferSize THEN SubSeq(pushed, 1, MaxAlertBufferSize) ELSE pushed

\* createSecurityAlert: alerts with the new alert pushed, cut to the last 100
createSecurityAlert(alerts, level, type, message, entry) ==
  LET alert == [level |-> level, type |-> type, message |-> message,
                userId |-> entry.userId, ip |-> entry.ip, timestamp |-> entry.timestamp,
                metadata |-> [event |-> entry.event, userAgent |-> entry.userAgent]]
      pushed == Append(alerts, alert)
  IN IF Len(pushed) > MaxAlertBufferSize
     THEN SubSeq(pushed, Len(pushed) - MaxAlertBufferSize + 1, Len(pushed))
     ELSE pushed

\* checkSecurityAlerts: the alert buffer after the four rules ran on entry, at time t
checkSecurityAlerts(entry, t) ==
  LET recentFailures == getRecentFailures(entry.ip, entry.email, t)
      recentSignups == getRecentSignups(entry.ip, t)
      recentTokenIssues == getRecentTokenIssues(entry.ip, t)
      a1 == IF entry.event = "login_failure" /\ recentFailures >= 3
            THEN createSecurityAlert(alertBuffer, "medium", "multiple_login_failures",
                                     <<recentFailures, "failed login attempts">>, entry)
            ELSE alertBuffer
      a2 == IF entry.event = "login_failure" /\ recentFailures >= 5
            THEN createSecurityAlert(a1, "high", "potential_brute_force",
                    <<recentFailures, "failed login attempts - possible brute force">>, entry)
            ELSE a1
      a3 == IF entry.event = "signup_attempt" /\ recentSignups >= 3
            THEN createSecurityAlert(a2, "medium", "rapid_signup_attempts",
                                     <<recentSignups, "signup attempts from same IP">>, entry)
            ELSE a2
      a4 == IF /\ entry.event = "login_success"
               /\ entry.userId # None
               /\ isNewDevice(entry.userId, entry.userAgent, entry.ip)
            THEN createSecurityAlert(a3, "low", "new_device_login",
                                     <<0, "Login from new device/location">>, entry)
            ELSE a3
  IN IF entry.event \in {"invalid_token", "token_expired"} /\ recentTokenIssues >= 5
     THEN createSecurityAlert(a4, "medium", "token_manipulation",
                              <<0, "Multiple token validation failures">>, entry)
     ELSE a4

\* logAuthEvent: the entry is pushed, the buffer is cut to its last 1000 entries,
\* then the alert rules run.
logAuthEvent(event, request, data, success) ==
  LET info == extractClientInfo(request)
      logEntry == [timestamp |-> now, event |-> event, ip |-> info.ip,
                   userAgent |-> info.userAgent, success |-> success,
                   userId |-> data.userId, email |-> data.email]
      pushed == Append(logBuffer, logEntry)
  IN /\ logBuffer' = IF Len(pushed) > maxBufferSize
                     THEN SubSeq(pushed, Len(pushed) - maxBufferSize + 1, Len(pushed))
                     ELSE pushed
     /\ alertBuffer' = checkSecurityAlerts(logEntry, now)
     /\ logged' = Append(logged, logEntry)
     /\ UNCHANGED <<now, rlVars, jwtVars, authVars, flushInterval, san>>

\* logLogin(request, success, data)
logLogin(request, success, data) ==
  logAuthEvent(IF success THEN "login_success" ELSE "login_failure", request, data, success)

\* flushLogs: the buffer is handed to batchSendLogs, which sends nothing, and emptied.
flushLogs == logBuffer' = <<>>

MaxLogged == 5

MaxLogMinutes == 5

\* A minute passes.  The timer of the constructor, when set, fires every 30 seconds
\* and runs flushLogs.
LogTick ==
  /\ now < MaxLogMinutes * MinuteMs
  /\ now' = now + MinuteMs
  /\ IF flushInterval THEN flushLogs ELSE UNCHANGED logBuffer
  /\ UNCHANGED <<rlVars, jwtVars, authVars, alertBuffer, flushInterval, logged, san>>

\* The logins the login route reports: the request, whether it succeeded, the data.
LoginsLogged ==
  { [request |-> request, success |-> FALSE, data |-> LogData(None, <<"a", "@", "b">>)] :
       request \in { r \in LogRequests : r.ip = None } }
  \cup { [request |-> request, success |-> TRUE, data |-> LogData("user-1", <<"a", "@", "b">>)] :
            request \in LogRequests }

\* new AuthLogger(): the timer is set when NODE_ENV is 'production'.
LoggerInit ==
  /\ now = 0
  /\ store = [k \in Keys |-> NoEntry]
  /\ rl = [p \in Procs |-> IdleCall]
  /\ gwin = [k \in Keys |-> NoWindow]
  /\ mw = NoMiddleware
  /\ env = [JWT_SECRET |-> "secret-a", JWT_REFRESH_SECRET |-> None]
  /\ minted = {}
  /\ nextId = 1
  /\ jres = NoVerification
  /\ AuthIdle
  /\ flushInterval \in BOOLEAN

LoggerNext ==
  \/ \E call \in LoginsLogged :
        /\ Len(logged) < MaxLogged
        /\ logLogin(call.request, call.success, call.data)
  \/ LogTick

SpecLogger == LoggerInit /\ [][LoggerNext]_vars

\* The login failures from address ip among the entries of seq that lie within the
\* five minutes before time t.
FailuresWithin(seq, ip, t) ==
  Len(SelectSeq(seq, LAMBDA entry :
        /\ entry.event = "login_failure"
        /\ entry.ip = ip
        /\ entry.timestamp > t - FiveMinutesMs))

\* C19: whenever 5 login_failure events from the same IP were logged within 5
\* minutes, the alert buffer holds an alert of level high and type
\* potential_brute_force once the 5th of them has been logged.
C19_BruteForceAlert ==
  ( /\ logged # <<>>
    /\ logged[Len(logged)].event = "login_failure"
    /\ logged[Len(logged)].timestamp = now
    /\ FailuresWithin(logged, logged[Len(logged)].ip, now) >= 5 )
  => \E i \in DOMAIN alertBuffer :
        /\ alertBuffer[i].level = "high"
        /\ alertBuffer[i].type = "potential_brute_force"

\* The entry logAuthEvent has just been called with.
JustLogged == logged'[Len(logged')]

\* The user of JustLogged has a login_success in the log from the same
\* (userAgent, ip) pair.
PairSeen ==
  \E i \in DOMAIN logBuffer :
     /\ logBuffer[i].event = "login_success"
     /\ logBuffer[i].userId = JustLogged.userId
     /\ logBuffer[i].userAgent = JustLogged.userAgent
     /\ logBuffer[i].ip = JustLogged.ip

\* The user of JustLogged has a login_success in the log from another
\* (userAgent, ip) pair.
OtherPairSeen ==
  \E i \in DOMAIN logBuffer :
     /\ logBuffer[i].event = "login_success"
     /\ logBuffer[i].userId = JustLogged.userId
     /\ (logBuffer[i].userAgent # JustLogged.userAgent \/ logBuffer[i].ip # JustLogged.ip)

\* The call pushed a low alert of type new_device_login.
NewDeviceAlertCreated ==
  /\ Len(alertBuffer') = Len(alertBuffer) + 1
  /\ alertBuffer'[Len(alertBuffer')].level = "low"
  /\ alertBuffer'[Len(alertBuffer')].type = "new_device_login"

\* C20: when a login_success is logged for a user who has a login_success in the log
\* from a different (userAgent, ip) pair and none from this pair, a low alert of type
\* new_device_login is created; when the pair was already seen for the user, none is.
C20_NewDeviceAlert ==
  [][( /\ Len(logged') = Len(logged) + 1
       /\ JustLogged.event = "login_success"
       /\ JustLogged.userId # None )
     => /\ (OtherPairSeen /\ ~PairSeen) => NewDeviceAlertCreated
        /\ PairSeen => alertBuffer' = alertBuffer]_vars

\* C28: whatever the interleaving of logAuthEvent calls and the flush timer, the
\* failure count the alert rules use when a login_failure is logged is the number of
\* login_failure events from that IP or that email logged in the five minutes before.
C28_FailureCountIgnoresFlush ==
  [][( /\ Len(logged') = Len(logged) + 1
       /\ JustLogged.event = "login_failure" )
     => getRecentFailures(JustLogged.ip, JustLogged.email, now)
          = Len(SelectSeq(logged', LAMBDA entry :
                  /\ entry.event = "login_failure"
                  /\ entry.timestamp > now - FiveMinutesMs
                  /\ (entry.ip = JustLogged.ip
                        \/ (JustLogged.email # None /\ entry.email = JustLogged.email))))]_vars

(***************************************************************************)
(* The logger under a run of failed logins from one address, one call per  *)
(* millisecond, long enough to fill both buffers.                          *)
(***************************************************************************)
MaxFilled == 1002

FlushEveryMs == 30000

\* The failed login of the run.
FillRequest ==
  [headers |-> [forwarded |-> <<"10.0.0.1", "10.9.9.9">>, realIp |-> None, clientIp |-> None],
   ip |-> None, userAgent |-> "Mozilla"]

\* One failed login is logged in each millisecond.
FillLog ==
  /\ Len(logged) < MaxFilled
  /\ IF logged = <<>> THEN TRUE ELSE logged[Len(logged)].timestamp < now
  /\ logLogin(FillRequest, FALSE, LogData(None, <<"a", "@", "b">>))

\* A millisecond passes; the timer of the constructor, when set, runs flushLogs every
\* 30 seconds.
MsTick ==
  /\ logged # <<>>
  /\ logged[Len(logged)].timestamp = now
  /\ Len(logged) < MaxFilled
  /\ now' = now + 1
  /\ IF flushInterval /\ (now + 1) % FlushEveryMs = 0 THEN flushLogs ELSE UNCHANGED logBuffer
  /\ UNCHANGED <<rlVars, jwtVars, authVars, alertBuffer, flushInterval, logged, san>>

FillNext == FillLog \/ MsTick

SpecLogFill == LoggerInit /\ [][FillNext]_vars

\* The last n elements of seq, all of seq when it has no more than n.
LastOf(seq, n) == IF Len(seq) > n THEN SubSeq(seq, Len(seq) - n + 1, Len(seq)) ELSE seq

\* The number of alerts the rules ask for when a login failure is logged: one from the
\* third failure of the address or email within five minutes on, two from the fifth on.
C21_Due ==
  LET entry == logged'[Len(logged')]
      recent == Len(SelectSeq(logBuffer', LAMBDA e :
                      /\ e.event = "login_failure"
                      /\ e.timestamp > now - FiveMinutesMs
                      /\ (e.ip = entry.ip \/ (entry.email # None /\ e.email = entry.email))))
  IN IF entry.event # "login_failure" \/ recent < 3 THEN 0 ELSE IF recent < 5 THEN 1 ELSE 2

\* The alerts a call of logAuthEvent pushed: the last C21_Due of the buffer after it.
C21_Pushed ==
  SubSeq(alertBuffer', Len(alertBuffer') - C21_Due + 1, Len(alertBuffer'))

\* C21: after every logAuthEvent call the log holds at most 1000 entries and the alert
\* buffer at most 100, and each holds the most recently appended entries in append
\* order: the log is the end of the sequence of all entries logged, one entry longer
\* than before unless it was full, and the alert buffer is the last 100 of its content
\* before the call followed by the alerts of the call.
C21_BuffersKeepMostRecent ==
  [][Len(logged') = Len(logged) + 1
     => /\ Len(logBuffer') <= maxBufferSize
        /\ Len(alertBuffer') <= MaxAlertBufferSize
        /\ Len(logBuffer') = Min(Len(logBuffer) + 1, maxBufferSize)
        /\ logBuffer' = LastOf(logged', Len(logBuffer'))
        /\ C21_Due <= Len(alertBuffer')
        /\ \A i \in DOMAIN C21_Pushed :
              /\ C21_Pushed[i].timestamp = now
              /\ C21_Pushed[i].ip = logged'[Len(logged')].ip
        /\ alertBuffer' = LastOf(alertBuffer \o C21_Pushed, MaxAlertBufferSize)]_vars

\* C21 witness: both buffers are full and the oldest entry and the oldest alert are gone.
C21_Witness ==
  /\ Len(logged) > maxBufferSize
  /\ Len(logBuffer) = maxBufferSize
  /\ logBuffer[1] = logged[Len(logged) - maxBufferSize + 1]
  /\ logBuffer[1] # logged[1]
  /\ Len(alertBuffer) = MaxAlertBufferSize
  /\ alertBuffer[1].timestamp > logged[3].timestamp

(***************************************************************************)
(* sanitizeString on its own: a string goes through the sanitizer of a     *)
(* profile, and its result goes through it again.                          *)
(***************************************************************************)
MaxSanLen == 3

\* The characters of the short inputs: a letter, a blank, characters that preventXSS
\* and preventSQLInjection rewrite, the brackets of a tag and a control character.
SanChars == {"a", " ", "&", "-", "<", ">", "^@"}

RECURSIVE StringsUpTo(_)
StringsUpTo(n) ==
  IF n = 0 THEN {<<>>}
  ELSE StringsUpTo(n - 1)
         \cup { Append(s, c) : s \in { x \in StringsUpTo(n - 1) : Len(x) = n - 1 }, c \in SanChars }

\* '<script>alert(1)</script>hello'
ScriptInput ==
  <<"<", "s", "c", "r", "i", "p", "t", ">", "a", "l", "e", "r", "t", "(", "1", ")",
    "<", "/", "s", "c", "r", "i", "p", "t", ">", "h", "e", "l", "l", "o">>

\* '<div><p>Hello <strong>World</strong></p></div>'
DivInput ==
  <<"<", "d", "i", "v", ">", "<", "p", ">", "H", "e", "l", "l", "o", " ",
    "<", "s", "t", "r", "o", "n", "g", ">", "W", "o", "r", "l", "d",
    "<", "/", "s", "t", "r", "o", "n", "g", ">", "<", "/", "p", ">", "<", "/", "d", "i", "v", ">">>

\* ' UNION a' and '-DROP-'
KeywordInputs ==
  { <<" ", "U", "N", "I", "O", "N", " ", "a">>, <<"-", "D", "R", "O", "P", "-">> }

SanInputs == StringsUpTo(MaxSanLen) \cup {ScriptInput, DivInput} \cup KeywordInputs

\* The options of the exported sanitizers with HTML disallowed.
SanProfiles == {"defaultSanitizer", "authSanitizer"}

ProfileOptions(profile) ==
  IF profile = "authSanitizer" THEN AuthSanitizerOptions ELSE DEFAULT_SANITIZATION_OPTIONS

SanInit ==
  /\ now = 0
  /\ store = [k \in Keys |-> NoEntry]
  /\ rl = [p \in Procs |-> IdleCall]
  /\ gwin = [k \in Keys |-> NoWindow]
  /\ mw = NoMiddleware
  /\ env = [JWT_SECRET |-> "secret-a", JWT_REFRESH_SECRET |-> None]
  /\ minted = {}
  /\ nextId = 1
  /\ jres = NoVerification
  /\ users = <<>>
  /\ nextTok = 1
  /\ reqs = [p \in Procs |-> IdleReq]
  /\ resp = NoResponse
  /\ hist = NoHistory
  /\ logBuffer = <<>>
  /\ alertBuffer = <<>>
  /\ logged = <<>>
  /\ flushInterval = FALSE
  /\ \E profile \in SanProfiles, input \in SanInputs :
        san = [NoSanitizing EXCEPT !.stage = "input", !.profile = profile, !.input = input]

\* sanitizer.sanitizeString(input)
Sanitize ==
  /\ san.stage = "input"
  /\ san' = [san EXCEPT !.stage = "once",
                        !.output = sanitizeString(ProfileOptions(san.profile), san.input)]
  /\ UNCHANGED <<now, rlVars, jwtVars, authVars, logVars>>

\* sanitizer.sanitizeString(sanitizer.sanitizeString(input))
SanitizeAgain ==
  /\ san.stage = "once"
  /\ san' = [san EXCEPT !.stage = "twice",
                        !.again = sanitizeString(ProfileOptions(san.profile), san.output)]
  /\ UNCHANGED <<now, rlVars, jwtVars, authVars, logVars>>

SanNext == Sanitize \/ SanitizeAgain

SpecSanitizer == SanInit /\ [][SanNext]_vars

\* s holds an HTML tag: a '<' with a '>' after it.
HasTag(s) == \E i, j \in DOMAIN s : i < j /\ s[i] = "<" /\ s[j] = ">"

\* s holds one of the control characters removeControlChars removes.
HasControlChar(s) == \E i \in DOMAIN s : IsControl(s[i])

\* C22: for every string with no HTML tag and no control character, under the default
\* and the auth profile, sanitizeString(sanitizeString(s)) = sanitizeString(s).
C22_IdempotentOnCleanInput ==
  (san.stage = "twice" /\ ~HasTag(san.input) /\ ~HasControlChar(san.input))
     => san.again = san.output

\* pat occurs in s.
Includes(s, pat) == \E i \in DOMAIN s : MatchAt(s, i, pat, FALSE)

\* C23: with HTML disallowed, sanitizeString removes script elements and tags and
\* keeps the text around them: the result for '<script>alert(1)</script>hello' holds
\* neither '<script' nor 'alert(1)' and holds 'hello', and the result for
\* '<div><p>Hello <strong>World</strong></p></div>' is 'Hello World'.
C23_TagsRemovedTextKept ==
  san.stage # "input" =>
     /\ san.input = ScriptInput =>
           /\ ~Includes(san.output, <<"<", "s", "c", "r", "i", "p", "t">>)
           /\ ~Includes(san.output, <<"a", "l", "e", "r", "t", "(", "1", ")">>)
           /\ Includes(san.output, <<"h", "e", "l", "l", "o">>)
     /\ san.input = DivInput =>
           san.output = <<"H", "e", "l", "l", "o", " ", "W", "o", "r", "l", "d">>

Spec == SpecRL

====
